---- MODULE Spec2Model ----
(***************************************************************************)
(* The factory of elara: WorkStations (stages) wired by manager/supplier   *)
(* lists, Tools (capabilities) instantiated per demanded option, and the   *)
(* graph driver build(start_node): validation, breadth-first engagement,   *)
(* reverse build.  Modelled from src/elara/factory.py.                     *)
(***************************************************************************)
EXTENDS Integers, Sequences, FiniteSets, TLC

\* ------------------------------------------------------------------ bounds
NumStages == 4
MaxEdges == 4
MaxDropped == 1

Stages == 1..NumStages
\* the workstation handed to build(): start_node
start_node == 1
\* a manager outside the graph whose .requirements are set by the caller
Ext == 0
\* "no WorkStation": the falsy results (None, False) of the graph walks
NoNode == -1

\* ------------------------------------------------------- values and helpers
Range(s) == {s[i] : i \in 1..Len(s)}

\* mutant: the list is not reversed
Reverse_kept(s) == s

RECURSIVE Reverse(_)
Reverse(s) == IF s = <<>> THEN <<>> ELSE Append(Reverse(Tail(s)), Head(s))

RECURSIVE SubsetsUpTo(_, _)
SubsetsUpTo(S, k) ==
    IF k = 0 \/ S = {} THEN {{}}
    ELSE LET x == CHOOSE y \in S : TRUE
             rest == S \ {x}
         IN SubsetsUpTo(rest, k) \cup {T \cup {x} : T \in SubsetsUpTo(rest, k - 1)}

RECURSIVE SortedSeq(_)
SortedSeq(S) ==
    IF S = {} THEN <<>>
    ELSE LET m == CHOOSE x \in S : \A y \in S : x <= y
         IN <<m>> \o SortedSeq(S \ {m})

\* the names of a dict in the order its entries are walked
RECURSIVE SortedNames(_)
SortedNames(S) ==
    IF S = {} THEN <<>>
    ELSE LET m == CHOOSE x \in S : TRUE
         IN <<m>> \o SortedNames(S \ {m})

\* Python None where a list of options is expected, and a list of options
None == [nil |-> TRUE, opts |-> <<>>]
List(l) == [nil |-> FALSE, opts |-> l]
\* Python truthiness of an options value: None and [] are falsy
Truthy(v) == ~v.nil /\ v.opts # <<>>
\* Python None where a requirements dict is expected, and a dict
NoDict == [nil |-> TRUE, d |-> <<>>]
Dict(d) == [nil |-> FALSE, d |-> d]
DictTruthy(r) == ~r.nil /\ DOMAIN r.d # {}
EmptyDict == [n \in {} |-> None]
\* the option of a tool built without one: Python None, str(None) = "None"
NoOption == "None"

\* ------------------------------------------------------------ graph walks
\* is_cyclic.visit: the loop over vertex.suppliers from index i on, with the
\* closure's shared sets visited and path threaded through.  closes is a ghost:
\* the supplier that was found on the current path.
RECURSIVE cyc_visit(_, _, _, _)
RECURSIVE cyc_loop(_, _, _, _, _)
\* mutant: the vertex is never taken off the path again
RECURSIVE cyc_loop_keep_path(_, _, _, _, _)
cyc_loop_keep_path(sup, vertex, i, vis, path) ==
    IF i > Len(sup[vertex])
    THEN [ret |-> NoNode, visited |-> vis, path |-> path, closes |-> NoNode]
    ELSE LET supplier == sup[vertex][i] IN
         IF supplier \in path
         THEN [ret |-> supplier, visited |-> vis, path |-> path, closes |-> supplier]
         ELSE LET r == cyc_visit(sup, supplier, vis, path) IN
              IF r.ret # NoNode
              THEN [ret |-> supplier, visited |-> r.visited, path |-> r.path,
                    closes |-> r.closes]
              ELSE cyc_loop_keep_path(sup, vertex, i + 1, r.visited, r.path)

\* mutant: a supplier on the current path is not looked for
RECURSIVE cyc_loop_no_path_test(_, _, _, _, _)
cyc_loop_no_path_test(sup, vertex, i, vis, path) ==
    IF i > Len(sup[vertex])
    THEN [ret |-> NoNode, visited |-> vis, path |-> path \ {vertex}, closes |-> NoNode]
    ELSE LET r == cyc_visit(sup, sup[vertex][i], vis, path) IN
         IF r.ret # NoNode
         THEN [ret |-> sup[vertex][i], visited |-> r.visited, path |-> r.path,
               closes |-> r.closes]
         ELSE cyc_loop_no_path_test(sup, vertex, i + 1, r.visited, r.path)

cyc_loop(sup, vertex, i, vis, path) ==
    IF i > Len(sup[vertex])
    THEN [ret |-> NoNode, visited |-> vis, path |-> path \ {vertex}, closes |-> NoNode]
    ELSE LET supplier == sup[vertex][i] IN
         IF supplier \in path
         THEN [ret |-> supplier, visited |-> vis, path |-> path, closes |-> supplier]
         ELSE LET r == cyc_visit(sup, supplier, vis, path) IN
              IF r.ret # NoNode
              THEN [ret |-> supplier, visited |-> r.visited, path |-> r.path,
                    closes |-> r.closes]
              ELSE cyc_loop(sup, vertex, i + 1, r.visited, r.path)

cyc_visit(sup, vertex, vis, path) ==
    IF vertex \in vis
    THEN [ret |-> NoNode, visited |-> vis, path |-> path, closes |-> NoNode]
    ELSE cyc_loop(sup, vertex, 1, vis \cup {vertex}, path \cup {vertex})

is_cyclic(sup, start) == cyc_visit(sup, start, {}, {})

broken_link(mgr, manager, supplier) ==
    IF mgr[supplier] = <<>> THEN TRUE
    ELSE manager \notin Range(mgr[supplier])

RECURSIVE brk_visit(_, _, _, _)
RECURSIVE brk_loop(_, _, _, _, _)
brk_loop(sup, mgr, vertex, i, vis) ==
    IF i > Len(sup[vertex])
    THEN [ret |-> NoNode, visited |-> vis]
    ELSE LET supplier == sup[vertex][i] IN
         IF supplier \in vis
         THEN brk_loop(sup, mgr, vertex, i + 1, vis)
         ELSE IF broken_link(mgr, vertex, supplier)
              THEN [ret |-> supplier, visited |-> vis]
              ELSE LET r == brk_visit(sup, mgr, supplier, vis) IN
                   IF r.ret # NoNode
                   THEN [ret |-> supplier, visited |-> r.visited]
                   ELSE brk_loop(sup, mgr, vertex, i + 1, r.visited)

brk_visit(sup, mgr, vertex, vis) == brk_loop(sup, mgr, vertex, 1, vis \cup {vertex})

is_broken(sup, mgr, start) == brk_visit(sup, mgr, start, {})

\* build_graph_depth(node, visited, depth): the .depth attributes after the walk
RECURSIVE build_graph_depth(_, _, _, _)
RECURSIVE bgd_loop(_, _, _, _, _)
RECURSIVE bgd_loop_overwrite(_, _, _, _, _)
\* mutant: the supplier's depth is set without the test supplier.depth < depth
bgd_loop_overwrite(sup, dep, node, i, d) ==
    IF i > Len(sup[node]) THEN dep
    ELSE LET supplier == sup[node][i]
             dep1 == [dep EXCEPT ![supplier] = d]
         IN bgd_loop_overwrite(sup, build_graph_depth(sup, dep1, supplier, d), node, i + 1, d)

bgd_loop(sup, dep, node, i, d) ==
    IF i > Len(sup[node]) THEN dep
    ELSE LET supplier == sup[node][i]
             dep1 == IF dep[supplier] < d THEN [dep EXCEPT ![supplier] = d] ELSE dep
         IN bgd_loop(sup, build_graph_depth(sup, dep1, supplier, d), node, i + 1, d)

build_graph_depth(sup, dep, node, d) ==
    IF sup[node] = <<>> THEN dep ELSE bgd_loop(sup, dep, node, 1, d + 1)

\* the same walk with a ghost: the assignments supplier.depth = depth it makes,
\* in order, each with the depth the supplier had before
RECURSIVE depth_walk(_, _, _, _, _)
RECURSIVE depth_walk_loop(_, _, _, _, _, _)
depth_walk_loop(sup, dep, node, i, d, writes) ==
    IF i > Len(sup[node]) THEN [depth |-> dep, writes |-> writes]
    ELSE LET supplier == sup[node][i]
             lower == dep[supplier] < d
             dep1 == IF lower THEN [dep EXCEPT ![supplier] = d] ELSE dep
             writes1 == IF lower
                        THEN Append(writes, [node |-> supplier, old |-> dep[supplier], new |-> d])
                        ELSE writes
             r == depth_walk(sup, dep1, supplier, d, writes1)
         IN depth_walk_loop(sup, r.depth, node, i + 1, d, r.writes)

depth_walk(sup, dep, node, d, writes) ==
    IF sup[node] = <<>> THEN [depth |-> dep, writes |-> writes]
    ELSE depth_walk_loop(sup, dep, node, 1, d + 1, writes)

\* sorted(candidates, key=depth): a stable insertion sort
RECURSIVE InsertByDepth(_, _, _)
InsertByDepth(sorted, x, dep) ==
    IF sorted = <<>> THEN <<x>>
    ELSE IF dep[x] < dep[Head(sorted)] THEN <<x>> \o sorted
         ELSE <<Head(sorted)>> \o InsertByDepth(Tail(sorted), x, dep)

\* mutant: the candidates are left in the order of the list
order_by_distance_as_listed(candidates, dep) == candidates

RECURSIVE order_by_distance(_, _)
order_by_distance(candidates, dep) ==
    IF candidates = <<>> THEN <<>>
    ELSE LET n == Len(candidates)
         IN InsertByDepth(order_by_distance(SubSeq(candidates, 1, n - 1), dep),
                          candidates[n], dep)
\* ---------------------------------------------------- requirement algebra
\* list(a_set): the iteration order of a set of option strings, given by the
\* process's string hashing (order lists every option once)
ListOfSet(S, order) == SelectSeq(order, LAMBDA x : x \in S)

\* mutant: the options of a later dict replace those of an earlier one
combine_reqs_last_wins(reqs, order) ==
    IF Len(reqs) = 0 THEN EmptyDict
    ELSE LET live == {i \in 1..Len(reqs) : DictTruthy(reqs[i])}
             tool_set == UNION {DOMAIN reqs[i].d : i \in live}
             givers(tool) == {j \in live : /\ tool \in DOMAIN reqs[j].d
                                           /\ Truthy(reqs[j].d[tool])}
             last(tool) == CHOOSE i \in givers(tool) : \A j \in givers(tool) : j <= i
         IN [tool \in tool_set |->
                IF givers(tool) # {}
                THEN List(ListOfSet(Range(reqs[last(tool)].d[tool].opts), order))
                ELSE None]

\* mutant: an entry without options takes the options of the others away
combine_reqs_none_wins(reqs, order) ==
    IF Len(reqs) = 0 THEN EmptyDict
    ELSE LET live == {i \in 1..Len(reqs) : DictTruthy(reqs[i])}
             tool_set == UNION {DOMAIN reqs[i].d : i \in live}
             havers(tool) == {j \in live : tool \in DOMAIN reqs[j].d}
             options(tool) == UNION {Range(reqs[i].d[tool].opts) : i \in havers(tool)}
         IN [tool \in tool_set |->
                IF options(tool) # {} /\ \A i \in havers(tool) : Truthy(reqs[i].d[tool])
                THEN List(ListOfSet(options(tool), order))
                ELSE None]

\* combine_reqs(reqs): reqs is a list of requirement dicts or None
combine_reqs(reqs, order) ==
    IF Len(reqs) = 0 THEN EmptyDict
    ELSE LET live == {i \in 1..Len(reqs) : DictTruthy(reqs[i])}
             tool_set == UNION {DOMAIN reqs[i].d : i \in live}
             options(tool) ==
                 UNION {Range(reqs[i].d[tool].opts) :
                        i \in {j \in live : /\ tool \in DOMAIN reqs[j].d
                                            /\ Truthy(reqs[j].d[tool])}}
         IN [tool \in tool_set |->
                IF options(tool) # {} THEN List(ListOfSet(options(tool), order))
                ELSE None]

\* mutant: the bare name whatever the options
EntryKeys_bare(name, options) == <<name>>

\* the keys of one entry: f'{name}:{option}' per option, or the bare name
EntryKeys(name, options) ==
    IF ~Truthy(options) THEN <<name>>
    ELSE [i \in 1..Len(options.opts) |-> name \o ":" \o options.opts[i]]

RECURSIVE KeysOfNames(_, _)
KeysOfNames(names, d) ==
    IF names = <<>> THEN <<>>
    ELSE EntryKeys(Head(names), d[Head(names)]) \o KeysOfNames(Tail(names), d)

\* convert_to_unique_keys(d): d is a requirements dict or None
convert_to_unique_keys(r) ==
    IF ~DictTruthy(r) THEN <<>>
    ELSE KeysOfNames(SortedNames(DOMAIN r.d), r.d)

\* the option strings in the order of Python's string comparison
Alphabet == <<"bus", "car">>

\* sorted(l) of a list of option strings
RECURSIVE sorted_from(_, _)
sorted_from(l, i) ==
    IF i > Len(Alphabet) THEN <<>>
    ELSE SelectSeq(l, LAMBDA x : x = Alphabet[i]) \o sorted_from(l, i + 1)

sorted(l) == sorted_from(l, 1)

\* list_equals(l1, l2): "True", "False", or "TypeError" for len(None)
list_equals(l1, l2) ==
    IF l1.nil THEN (IF l2.nil THEN "True" ELSE "False")
    ELSE IF l2.nil THEN "TypeError"
    ELSE IF Len(l1.opts) # Len(l2.opts) THEN "False"
    ELSE IF sorted(l1.opts) # sorted(l2.opts) THEN "False"
    ELSE "True"

\* the loop of equals(d1, d2) over d1.items(); names is list(d1), the names
\* of d1 in insertion order
RECURSIVE equals_loop(_, _, _)
equals_loop(d1, d2, names) ==
    IF names = <<>> THEN "True"
    ELSE LET r == list_equals(d1[Head(names)], d2[Head(names)])
         IN IF r # "True" THEN r ELSE equals_loop(d1, d2, Tail(names))

\* equals(d1, d2) of two requirements dicts; the key lists hold distinct
\* names, so list_equals on them compares the key sets
equals(d1, d2, names) ==
    IF DOMAIN d1 # DOMAIN d2 THEN "False"
    ELSE equals_loop(d1, d2, names)

\* --------------------------------------------------------------- Tool
\* mutant: the allow-list is not consulted
validate_option_deny_only(tool, option) ==
    Truthy(tool.invalid_options) => option \notin Range(tool.invalid_options.opts)

\* Tool._validate_option: TRUE iff it returns the option, FALSE iff it raises
validate_option(tool, option) ==
    /\ Truthy(tool.valid_options) => option \in Range(tool.valid_options.opts)
    /\ Truthy(tool.invalid_options) => option \notin Range(tool.invalid_options.opts)

\* mutant: the option is forwarded whether or not options are enabled
get_requirements_forward(tool, option) ==
    IF tool.requirements = <<>> THEN NoDict
    ELSE Dict([req \in Range(tool.requirements) |-> List(<<option>>)])

\* Tool.get_requirements of an instance of `tool` holding `option`
get_requirements(tool, option) ==
    IF tool.requirements = <<>> THEN NoDict
    ELSE Dict([req \in Range(tool.requirements) |->
                 IF tool.options_enabled THEN List(<<option>>) ELSE None])

\* mutant: the requirement names are looked up, not their unique keys
tool_build_missing_names(tool, option, poolKeys) ==
    {k \in Range(tool.requirements) : k \notin poolKeys}

\* Tool.build(resource): the keys it finds missing in the pool (raises iff any)
tool_build_missing(tool, option, poolKeys) ==
    {k \in Range(convert_to_unique_keys(get_requirements(tool, option))) :
        k \notin poolKeys}

\* ---------------------------------------------------------- WorkStation
\* a dict kept as a list of [key, ...] records in insertion order: d[key] = rec
DictPut(d, rec) ==
    IF \E i \in 1..Len(d) : d[i].key = rec.key
    THEN [i \in 1..Len(d) |-> IF d[i].key = rec.key THEN rec ELSE d[i]]
    ELSE Append(d, rec)

RECURSIVE DictUpdate(_, _)
DictUpdate(d, other) ==
    IF other = <<>> THEN d ELSE DictUpdate(DictPut(d, Head(other)), Tail(other))

Keys(d) == {d[i].key : i \in 1..Len(d)}

ToolNames(registry) == {registry[i].name : i \in 1..Len(registry)}

\* mutant: only the first manager is asked
gather_manager_requirements_first(mgrs, reqs, order) ==
    combine_reqs([i \in 1..(IF mgrs = <<>> THEN 0 ELSE 1) |-> Dict(reqs[mgrs[i]])], order)

\* WorkStation.gather_manager_requirements
gather_manager_requirements(mgrs, reqs, order) ==
    combine_reqs([i \in 1..Len(mgrs) |-> Dict(reqs[mgrs[i]])], order)

\* the instantiations engage() makes for one registry entry, in loop order
ToolPlan(tool, manager_requirements) ==
    IF tool.name \notin DOMAIN manager_requirements THEN <<>>
    ELSE LET options == manager_requirements[tool.name] IN
         IF Truthy(options)
         THEN [i \in 1..Len(options.opts) |->
                  [key |-> tool.name \o ":" \o options.opts[i], tool |-> tool,
                   option |-> options.opts[i]]]
         ELSE <<[key |-> tool.name, tool |-> tool, option |-> NoOption]>>

\* mutant: the registry is gone through from its last entry to its first
RECURSIVE EngagePlan_reversed(_, _)
EngagePlan_reversed(registry, manager_requirements) ==
    IF registry = <<>> THEN <<>>
    ELSE EngagePlan_reversed(Tail(registry), manager_requirements)
            \o ToolPlan(Head(registry), manager_requirements)

RECURSIVE EngagePlan(_, _)
EngagePlan(registry, manager_requirements) ==
    IF registry = <<>> THEN <<>>
    ELSE ToolPlan(Head(registry), manager_requirements)
            \o EngagePlan(Tail(registry), manager_requirements)

\* the init loop of engage(): resources and all_requirements after the plan, or
\* up to the instantiation whose option is rejected (raised = TRUE)
RECURSIVE Instantiate(_, _, _)
Instantiate(plan, res, all_requirements) ==
    IF plan = <<>>
    THEN [resources |-> res, all_requirements |-> all_requirements, raised |-> FALSE]
    ELSE LET p == Head(plan) IN
         IF ~validate_option(p.tool, p.option)
         THEN [resources |-> res, all_requirements |-> all_requirements, raised |-> TRUE]
         ELSE Instantiate(Tail(plan),
                          DictPut(res, [key |-> p.key, name |-> p.tool.name,
                                        option |-> p.option, pool |-> NoNode]),
                          Append(all_requirements, get_requirements(p.tool, p.option)))

\* mutant: no option is stripped
clean_requirements_kept(reqs, sups, registries) == reqs

\* mutant: the options of every requirement are stripped
clean_requirements_all(reqs, sups, registries) ==
    [req \in DOMAIN reqs |-> None]

\* the clean-out at the end of engage(): options stripped from a requirement
\* that some supplier's tool of that name serves without options
clean_requirements(reqs, sups, registries) ==
    [req \in DOMAIN reqs |->
        IF /\ Truthy(reqs[req])
           /\ \E i \in 1..Len(sups) : \E j \in 1..Len(registries[sups[i]]) :
                 /\ registries[sups[i]][j].name = req
                 /\ ~registries[sups[i]][j].options_enabled
        THEN None ELSE reqs[req]]

\* mutant: the stage's own requirements are gathered with its managers'
engage_own_demand(s, mgr, sup, registries, reqs, res, order) ==
    LET manager_requirements ==
            combine_reqs([i \in 1..(Len(mgr[s]) + 1) |->
                             IF i <= Len(mgr[s]) THEN Dict(reqs[mgr[s][i]])
                             ELSE Dict(reqs[s])], order)
    IN
    IF registries[s] = <<>>
    THEN [resources |-> res[s], requirements |-> manager_requirements, raised |-> FALSE]
    ELSE LET r == Instantiate(EngagePlan(registries[s], manager_requirements),
                              res[s], <<>>)
         IN IF r.raised
            THEN [resources |-> r.resources, requirements |-> reqs[s], raised |-> TRUE]
            ELSE [resources |-> r.resources,
                  requirements |-> clean_requirements(
                      combine_reqs(r.all_requirements, order), sup[s], registries),
                  raised |-> FALSE]

\* WorkStation.engage on stage s: its resources and requirements afterwards
engage(s, mgr, sup, registries, reqs, res, order) ==
    LET manager_requirements == gather_manager_requirements(mgr[s], reqs, order) IN
    IF registries[s] = <<>>
    THEN [resources |-> res[s], requirements |-> manager_requirements, raised |-> FALSE]
    ELSE LET r == Instantiate(EngagePlan(registries[s], manager_requirements),
                              res[s], <<>>)
         IN IF r.raised
            THEN [resources |-> r.resources, requirements |-> reqs[s], raised |-> TRUE]
            ELSE [resources |-> r.resources,
                  requirements |-> clean_requirements(
                      combine_reqs(r.all_requirements, order), sup[s], registries),
                  raised |-> FALSE]

\* mutant: the set difference taken the wrong way round
validate_suppliers_reversed(s, sup, registries, reqs) ==
    UNION {ToolNames(registries[sup[s][i]]) : i \in 1..Len(sup[s])} \ DOMAIN reqs[s]

\* mutant: only the first supplier's tools are gathered
validate_suppliers_first(s, sup, registries, reqs) ==
    DOMAIN reqs[s] \ UNION {ToolNames(registries[sup[s][i]]) :
                               i \in 1..(IF sup[s] = <<>> THEN 0 ELSE 1)}

\* WorkStation.validate_suppliers: the set `missing` (raises iff non-empty)
validate_suppliers(s, sup, registries, reqs) ==
    LET supplier_tools == UNION {ToolNames(registries[sup[s][i]]) : i \in 1..Len(sup[s])}
    IN DOMAIN reqs[s] \ supplier_tools

\* the gathering loop of WorkStation.build: supplier_resources after update()
\* from every supplier; an imported entry names the stage that owns the tool
RECURSIVE gather_resources(_, _, _)
gather_resources(pool, sups, res) ==
    IF sups = <<>> THEN pool
    ELSE gather_resources(
            DictUpdate(pool, [i \in 1..Len(res[Head(sups)]) |->
                                 [key |-> res[Head(sups)][i].key, owner |-> Head(sups)]]),
            Tail(sups), res)

\* mutant: the instances are built from the last to the first
RECURSIVE build_tools_backwards(_, _, _, _, _)
build_tools_backwards(s, registry, own, i, poolKeys) ==
    IF i > Len(own) THEN [resources |-> own, raised |-> FALSE, missing |-> {}]
    ELSE LET k == Len(own) + 1 - i
             tool == CHOOSE t \in Range(registry) : t.name = own[k].name
             missing == tool_build_missing(tool, own[k].option, poolKeys)
         IN IF missing # {}
            THEN [resources |-> own, raised |-> TRUE, missing |-> missing]
            ELSE build_tools_backwards(s, registry, [own EXCEPT ![k].pool = s],
                                       i + 1, poolKeys)

\* the build loop of WorkStation.build over .resources from index i on: the
\* tools built so far get the pool of stage s; stops at the first that raises
RECURSIVE build_tools(_, _, _, _, _)
build_tools(s, registry, own, i, poolKeys) ==
    IF i > Len(own) THEN [resources |-> own, raised |-> FALSE, missing |-> {}]
    ELSE LET tool == CHOOSE t \in Range(registry) : t.name = own[i].name
             missing == tool_build_missing(tool, own[i].option, poolKeys)
         IN IF missing # {}
            THEN [resources |-> own, raised |-> TRUE, missing |-> missing]
            ELSE build_tools(s, registry, [own EXCEPT ![i].pool = s], i + 1, poolKeys)

\* WorkStation.load_all_tools(option): the loop over .tools, the local
\* variable option carried from one turn to the next; raised is "none",
\* "option" (the constructor refuses the option) or "index" (valid_options[0]
\* of an empty list)
RECURSIVE load_all_tools(_, _, _)
load_all_tools(registry, res, option) ==
    IF registry = <<>> THEN [resources |-> res, raised |-> "none"]
    ELSE LET tool == Head(registry)
             pick == option = NoOption /\ ~tool.valid_options.nil
         IN IF pick /\ tool.valid_options.opts = <<>>
            THEN [resources |-> res, raised |-> "index"]
            ELSE LET opt == IF pick THEN tool.valid_options.opts[1] ELSE option IN
                 IF ~validate_option(tool, opt)
                 THEN [resources |-> res, raised |-> "option"]
                 ELSE load_all_tools(Tail(registry),
                                     DictPut(res, [key |-> tool.name, name |-> tool.name,
                                                   option |-> opt, pool |-> NoNode]),
                                     opt)
\* ------------------------------------------------------------------ state
VARIABLES
    suppliers,          \* stage -> its .suppliers list (<<>> for None or [])
    managers,           \* stage -> its .managers list (<<>> for None or [])
    tools,              \* stage -> its .tools registry, in declaration order
    depth,              \* stage -> its .depth
    requirements,       \* stage -> its .requirements dict
    resources,          \* stage -> its .resources dict, in insertion order
    supplier_resources, \* stage -> its .supplier_resources dict
    hashOrder,          \* the iteration order of option sets in this process
    pc,                 \* where build(start_node) stands
    queue,              \* stage 2: queue
    visited,            \* stage 2 and, emptied, stage 3: visited
    sequence,           \* stage 3: sequence
    return_queue,       \* stage 3: return_queue
    result,             \* the list build(start_node) returns
    fault,              \* the exception build(start_node) ends with
    trace,              \* ghost: the stage calls made so far, in order
    args,               \* the arguments of a direct call of a helper function
    out,                \* what that call returned or raised
    writer              \* a ChunkWriter and, ghost, the csv file it writes

vars == <<suppliers, managers, tools, depth, requirements, resources,
          supplier_resources, hashOrder, pc, queue, visited, sequence,
          return_queue, result, fault, trace, args, out, writer>>

AllStages == Stages \cup {Ext}
NoFault == [kind |-> "none", node |-> NoNode, names |-> {}]
\* no helper function called directly
\* ---------------------------------------------------------- ChunkWriter
\* ChunkWriter(path, chunksize): lines are numbered as they are added; file
\* is the csv at path, rows its data rows with their index label, and headers
\* counts the header lines written to it so far
ChunkWriter(chunksize) ==
    [chunksize |-> chunksize, chunk |-> <<>>, idx |-> 0, added |-> 0,
     file |-> <<>>, headers |-> 0]

\* no ChunkWriter was constructed
NoWriter == ChunkWriter(0)

\* the rows of the DataFrame made of the chunk, indexed from idx on
ChunkRows(w) ==
    [i \in 1..Len(w.chunk) |-> [index |-> w.idx + i - 1, line |-> w.chunk[i]]]

\* mutant: idx is set to the length of the chunk
write_idx_assigned(w) ==
    [w EXCEPT !.file = IF w.idx = 0 THEN ChunkRows(w) ELSE w.file \o ChunkRows(w),
              !.headers = IF w.idx = 0 THEN w.headers + 1 ELSE w.headers,
              !.idx = Len(w.chunk),
              !.chunk = <<>>]

\* ChunkWriter.write: with idx 0 the file is written anew with its header,
\* otherwise the rows are appended without header
write(w) ==
    [w EXCEPT !.file = IF w.idx = 0 THEN ChunkRows(w) ELSE w.file \o ChunkRows(w),
              !.headers = IF w.idx = 0 THEN w.headers + 1 ELSE w.headers,
              !.idx = w.idx + Len(w.chunk),
              !.chunk = <<>>]

\* ChunkWriter.add(lines), lines being n new lines
add(w, n) ==
    LET extended == [w EXCEPT !.chunk = w.chunk \o [i \in 1..n |-> w.added + i],
                              !.added = w.added + n]
    IN IF Len(extended.chunk) > extended.chunksize THEN write(extended) ELSE extended

\* ChunkWriter.finish
finish(w) == write(w)

\* the class Tool itself: no name of its own, nothing required, no lists
BaseTool ==
    [name |-> "Tool", requirements |-> <<>>, options_enabled |-> FALSE,
     valid_options |-> None, invalid_options |-> None]
NoArgs ==
    [f |-> "none", reqs |-> <<>>, names |-> <<>>, tool |-> BaseTool, option |-> NoOption]
NoOut == [ret |-> "none", dict |-> EmptyDict, keys |-> <<>>]

\* --------------------------------------------------------- initial states
\* the stages reached from the stages R along the supplier edges E
RECURSIVE ReachFrom(_, _)
ReachFrom(E, R) ==
    LET more == {e[2] : e \in {f \in E : f[1] \in R}} \ R
    IN IF more = {} THEN R ELSE ReachFrom(E, R \cup more)

\* the sets of at most k supplier edges wired outwards from start_node
RECURSIVE EdgeSetsUpTo(_)
EdgeSetsUpTo(k) ==
    IF k = 0 THEN {{}}
    ELSE LET smaller == EdgeSetsUpTo(k - 1)
         IN smaller \cup
            UNION {{E \cup {e} : e \in (ReachFrom(E, {start_node}) \X Stages) \ E} :
                   E \in smaller}

\* one wiring per renaming of the stages: those reached are numbered 1..n
EdgeSets ==
    {E \in EdgeSetsUpTo(MaxEdges) :
        LET R == ReachFrom(E, {start_node}) IN R = 1..Cardinality(R)}

SuppliersOf(E) == [s \in Stages |-> SortedSeq({e[2] : e \in {f \in E : f[1] = s}})]
ManagersOf(E) == [s \in Stages |-> SortedSeq({e[1] : e \in {f \in E : f[2] = s}})]

\* capability descriptors (Tool subclasses) and stage types (their .tools)
ToolCsv ==
    [name |-> "csv", requirements |-> <<"raw">>, options_enabled |-> TRUE,
     valid_options |-> None, invalid_options |-> None]
ToolCsvCar == [ToolCsv EXCEPT !.valid_options = List(<<"car">>)]
ToolRaw ==
    [name |-> "raw", requirements |-> <<>>, options_enabled |-> FALSE,
     valid_options |-> None, invalid_options |-> None]
ToolRawOpt == [ToolRaw EXCEPT !.options_enabled = TRUE]
ToolRawNoBus ==
    [ToolRawOpt EXCEPT !.valid_options = List(<<>>), !.invalid_options = List(<<"bus">>)]
Registries ==
    {<<>>, <<ToolCsv>>, <<ToolCsvCar>>, <<ToolRaw>>, <<ToolRawOpt>>, <<ToolRawNoBus>>}

\* requirement dicts the caller sets on the outside manager
Seeds ==
    {EmptyDict,
     [n \in {"csv"} |-> List(<<"car">>)],
     [n \in {"csv"} |-> List(<<"bus">>)],
     [n \in {"csv"} |-> List(<<"car", "bus">>)],
     [n \in {"csv"} |-> None],
     [n \in {"foo"} |-> None]}

HashOrders == {<<"car", "bus", "None">>, <<"bus", "car", "None">>}

\* wired graphs the tools are tried on: a single stage, chains, a fork
Shapes ==
    {{}, {<<1, 2>>}, {<<1, 2>>, <<2, 3>>}, {<<1, 2>>, <<1, 3>>}}

InitRun ==
    /\ depth = [s \in Stages |-> 0]
    /\ resources = [s \in Stages |-> <<>>]
    /\ supplier_resources = [s \in Stages |-> <<>>]
    /\ pc = "is_cyclic"
    /\ queue = <<>>
    /\ visited = <<>>
    /\ sequence = <<>>
    /\ return_queue = <<>>
    /\ result = <<>>
    /\ fault = NoFault
    /\ trace = <<>>
    /\ args = NoArgs
    /\ out = NoOut
    /\ writer = NoWriter

\* any wiring of at most MaxEdges supplier edges, at most MaxDropped of them
\* without the manager entry; stages without tools
InitGraphs ==
    /\ \E E \in EdgeSets : \E D \in SubsetsUpTo(E, MaxDropped) :
          /\ suppliers = SuppliersOf(E)
          /\ managers = ManagersOf(E \ D)
    /\ tools = [s \in Stages |-> <<>>]
    /\ requirements = [s \in AllStages |-> EmptyDict]
    /\ hashOrder = <<"car", "bus", "None">>
    /\ InitRun

\* a well-wired shape, every reachable stage of any type, the outside manager
\* of start_node seeded
InitTools ==
    /\ \E E \in Shapes :
          /\ suppliers = SuppliersOf(E)
          /\ managers = [s \in Stages |->
                            IF s = start_node THEN <<Ext>> ELSE ManagersOf(E)[s]]
          /\ tools \in {t \in [Stages -> Registries] :
                           \A s \in Stages \ ReachFrom(E, {start_node}) : t[s] = <<>>}
    /\ \E seed \in Seeds :
          requirements = [s \in AllStages |-> IF s = Ext THEN seed ELSE EmptyDict]
    /\ hashOrder \in HashOrders
    /\ InitRun

Init == InitGraphs \/ InitTools

\* ---------------------------------------------------------------- actions
Raise(kind, node, names) ==
    /\ pc' = "fault"
    /\ fault' = [kind |-> kind, node |-> node, names |-> names]

\* build(), stage 1: if is_cyclic(start_node): raise UserWarning
CheckCyclic ==
    /\ pc = "is_cyclic"
    /\ LET r == is_cyclic(suppliers, start_node).ret IN
          IF r # NoNode THEN Raise("cyclic", r, {})
          ELSE pc' = "is_broken" /\ fault' = fault
    /\ UNCHANGED <<writer, suppliers, managers, tools, depth, requirements, resources,
                   supplier_resources, hashOrder, args, out, queue, visited, sequence,
                   return_queue, result, trace>>

\* build(), stage 1: if is_broken(start_node): raise UserWarning
CheckBroken ==
    /\ pc = "is_broken"
    /\ LET r == is_broken(suppliers, managers, start_node).ret IN
          IF r # NoNode THEN Raise("broken", r, {})
          ELSE pc' = "depth" /\ fault' = fault
    /\ UNCHANGED <<writer, suppliers, managers, tools, depth, requirements, resources,
                   supplier_resources, hashOrder, args, out, queue, visited, sequence,
                   return_queue, result, trace>>

\* build(), stage 1: build_graph_depth(start_node); then stage 2 sets up
\* queue and visited
GraphDepth ==
    /\ pc = "depth"
    /\ depth' = build_graph_depth(suppliers, depth, start_node, 0)
    /\ queue' = <<start_node>>
    /\ visited' = <<start_node>>
    /\ pc' = "engaging"
    /\ UNCHANGED <<writer, suppliers, managers, tools, requirements, resources,
                   supplier_resources, hashOrder, args, out, sequence, return_queue,
                   result, fault, trace>>

\* mutant: suppliers are enqueued whether visited or not
not_visited_unchecked(candidates, vis) == candidates

\* the suppliers the engagement loop appends to queue and visited
RECURSIVE not_visited(_, _)
not_visited(candidates, vis) ==
    IF candidates = <<>> THEN <<>>
    ELSE IF Head(candidates) \in Range(vis)
         THEN not_visited(Tail(candidates), vis)
         ELSE <<Head(candidates)>>
                 \o not_visited(Tail(candidates), Append(vis, Head(candidates)))

\* mutant: the loop stops with one stage still queued
engaging_ends_early(q) == Len(q) <= 1

\* while queue: (stage 2) is left
engaging_ends(q) == q = <<>>

\* while return_queue: (stage 3) is left
building_ends(q) == q = <<>>

\* build(), stage 2: one turn of the loop: current.engage(), then for a stage
\* with suppliers current.validate_suppliers() and the enqueueing
Engage ==
    /\ pc = "engaging"
    /\ ~engaging_ends(queue)
    /\ LET current == Head(queue)
           e == engage(current, managers, suppliers, tools, requirements,
                       resources, hashOrder)
           reqs1 == [requirements EXCEPT ![current] = e.requirements]
           missing == validate_suppliers(current, suppliers, tools, reqs1)
           new == not_visited(order_by_distance(suppliers[current], depth), visited)
       IN /\ queue' = Tail(queue) \o (IF e.raised \/ missing # {} THEN <<>> ELSE new)
          /\ visited' = visited \o (IF e.raised \/ missing # {} THEN <<>> ELSE new)
          /\ resources' = [resources EXCEPT ![current] = e.resources]
          /\ requirements' = reqs1
          /\ IF e.raised
             THEN /\ Raise("option", current, {})
                  /\ trace' = trace
             ELSE IF suppliers[current] = <<>>
             THEN /\ pc' = pc /\ fault' = fault
                  /\ trace' = Append(trace, [op |-> "engage", node |-> current])
             ELSE IF missing # {}
             THEN /\ Raise("wiring", current, missing)
                  /\ trace' = Append(trace, [op |-> "engage", node |-> current])
             ELSE /\ pc' = pc /\ fault' = fault
                  /\ trace' = trace \o <<[op |-> "engage", node |-> current],
                                         [op |-> "validate", node |-> current]>>
    /\ UNCHANGED <<writer, suppliers, managers, tools, depth, supplier_resources,
                   hashOrder, args, out, sequence, return_queue, result>>

\* build(), stage 3 set up: sequence, return_queue = visited[::-1], visited = []
StartBuild ==
    /\ pc = "engaging"
    /\ engaging_ends(queue)
    /\ sequence' = visited
    /\ return_queue' = Reverse(visited)
    /\ visited' = <<>>
    /\ pc' = "building"
    /\ UNCHANGED <<writer, suppliers, managers, tools, depth, requirements, resources,
                   supplier_resources, hashOrder, args, out, queue, result, fault, trace>>

\* mutant: the suppliers' instances are moved into the pool, not copied
BuildStage_moving ==
    /\ pc = "building"
    /\ ~building_ends(return_queue)
    /\ LET current == Head(return_queue)
           pool == gather_resources(supplier_resources[current],
                                    suppliers[current], resources)
           b == build_tools(current, tools[current], resources[current], 1, Keys(pool))
       IN /\ return_queue' = Tail(return_queue)
          /\ supplier_resources' = [supplier_resources EXCEPT ![current] = pool]
          /\ resources' = [t \in Stages |->
                              IF t = current THEN b.resources
                              ELSE IF t \in Range(suppliers[current]) THEN <<>>
                              ELSE resources[t]]
          /\ IF b.raised
             THEN /\ Raise("resource", current, b.missing)
                  /\ visited' = visited
                  /\ trace' = Append(trace, [op |-> "build", node |-> current])
             ELSE /\ pc' = pc /\ fault' = fault
                  /\ visited' = Append(visited, current)
                  /\ trace' = trace \o <<[op |-> "build", node |-> current],
                                         [op |-> "built", node |-> current]>>
    /\ UNCHANGED <<writer, suppliers, managers, tools, depth, requirements, hashOrder, args, out,
                   queue, sequence, result>>

\* build(), stage 3: one turn of the loop: current.build(spinner)
BuildStage ==
    /\ pc = "building"
    /\ ~building_ends(return_queue)
    /\ LET current == Head(return_queue)
           pool == gather_resources(supplier_resources[current],
                                    suppliers[current], resources)
           b == build_tools(current, tools[current], resources[current], 1, Keys(pool))
       IN /\ return_queue' = Tail(return_queue)
          /\ supplier_resources' = [supplier_resources EXCEPT ![current] = pool]
          /\ resources' = [resources EXCEPT ![current] = b.resources]
          /\ IF b.raised
             THEN /\ Raise("resource", current, b.missing)
                  /\ visited' = visited
                  /\ trace' = Append(trace, [op |-> "build", node |-> current])
             ELSE /\ pc' = pc /\ fault' = fault
                  /\ visited' = Append(visited, current)
                  /\ trace' = trace \o <<[op |-> "build", node |-> current],
                                         [op |-> "built", node |-> current]>>
    /\ UNCHANGED <<writer, suppliers, managers, tools, depth, requirements, hashOrder, args, out,
                   queue, sequence, result>>

\* return sequence + visited
Return ==
    /\ pc = "building"
    /\ building_ends(return_queue)
    /\ result' = sequence \o visited
    /\ pc' = "done"
    /\ UNCHANGED <<writer, suppliers, managers, tools, depth, requirements, resources,
                   supplier_resources, hashOrder, args, out, queue, visited, sequence,
                   return_queue, fault, trace>>

Next ==
    \/ CheckCyclic
    \/ CheckBroken
    \/ GraphDepth
    \/ Engage
    \/ StartBuild
    \/ BuildStage
    \/ Return

Spec == Init /\ [][Next]_vars

\* the graphs of InitGraphs, and the chain of three stages with tools on the
\* second and the third stage
InitLive ==
    \/ InitGraphs
    \/ /\ InitTools
       /\ suppliers = SuppliersOf({<<1, 2>>, <<2, 3>>})
       /\ tools[1] = <<>>
       /\ tools[2] \in {<<ToolCsv>>, <<ToolCsvCar>>}
       /\ tools[3] \in {<<ToolRaw>>, <<ToolRawOpt>>}
       /\ hashOrder = <<"car", "bus", "None">>

\* build() is one sequential call: while a step is left to take, it is taken
SpecLive == InitLive /\ [][Next]_vars /\ WF_vars(Next)

\* ------------------------------------- the helper functions called directly
MaxReqs == 3

\* requirement dicts over the names x and y, with x's values from X and y's
\* from Y
DictsOf(X, Y) ==
    {EmptyDict} \cup [{"x"} -> X] \cup [{"y"} -> Y]
        \cup {[n \in {"x", "y"} |-> IF n = "x" THEN vx ELSE vy] : vx \in X, vy \in Y}

\* the arguments tried on combine_reqs: None, or a dict whose entries are
\* None, an empty list or a list of options
CombineInputs ==
    {NoDict} \cup
        {Dict(d) : d \in DictsOf({None, List(<<>>), List(<<"car">>), List(<<"bus">>),
                                  List(<<"car", "bus">>)},
                                 {None, List(<<"car">>)})}

\* the dicts tried on convert_to_unique_keys and equals: lists in either
\* order and with a repeated option as well
PlainDicts ==
    DictsOf({None, List(<<>>), List(<<"car">>), List(<<"bus">>),
             List(<<"car", "bus">>), List(<<"bus", "car">>), List(<<"car", "car">>)},
            {None, List(<<"car">>)})

\* the orders in which a dict may hold the names D
NameOrders(D) == {s \in [1..Cardinality(D) -> D] : Range(s) = D}

SeqsUpTo(S, n) == UNION {[1..k -> S] : k \in 0..n}

\* Tool subclasses by what get_requirements reads of them: the requirement
\* names and the flag options_enabled
ToolClasses ==
    {[BaseTool EXCEPT !.requirements = r, !.options_enabled = e] :
        r \in {<<>>, <<"raw">>, <<"raw", "csv">>}, e \in BOOLEAN}

\* the keys of the resources an instance was built with, none when it was
\* not built
SuppliedKeys == {<<>>, <<"raw">>, <<"raw:car", "csv:car">>}

\* stages as constructed, nothing wired: the helpers do not touch them
InitHelpers ==
    /\ suppliers = [s \in Stages |-> <<>>]
    /\ managers = [s \in Stages |-> <<>>]
    /\ tools = [s \in Stages |-> <<>>]
    /\ requirements = [s \in AllStages |-> EmptyDict]
    /\ depth = [s \in Stages |-> 0]
    /\ resources = [s \in Stages |-> <<>>]
    /\ supplier_resources = [s \in Stages |-> <<>>]
    /\ queue = <<>>
    /\ visited = <<>>
    /\ sequence = <<>>
    /\ return_queue = <<>>
    /\ result = <<>>
    /\ fault = NoFault
    /\ trace = <<>>
    /\ pc = "call"
    /\ out = NoOut
    /\ writer = NoWriter

InitAlgebra ==
    /\ \/ \E reqs \in SeqsUpTo(CombineInputs, MaxReqs) :
             args = [NoArgs EXCEPT !.f = "combine_reqs", !.reqs = reqs, !.names = <<>>]
       \/ \E r \in {NoDict} \cup {Dict(d) : d \in PlainDicts} :
             args = [NoArgs EXCEPT !.f = "convert_to_unique_keys", !.reqs = <<r>>, !.names = <<>>]
       \/ \E d1 \in PlainDicts : \E d2 \in PlainDicts : \E names \in NameOrders(DOMAIN d1) :
             args = [NoArgs EXCEPT !.f = "equals", !.reqs = <<Dict(d1), Dict(d2)>>, !.names = names]
       \/ \E tool \in ToolClasses : \E option \in {NoOption, "car", "bus"} :
          \E given \in SuppliedKeys :
             args = [NoArgs EXCEPT !.f = "get_requirements", !.tool = tool,
                                   !.option = option, !.names = given]
    /\ hashOrder \in HashOrders
    /\ InitHelpers

StageVars ==
    <<suppliers, managers, tools, depth, requirements, resources,
      supplier_resources, queue, visited, sequence, return_queue, result,
      fault, trace>>

\* combine_reqs(reqs)
CallCombine ==
    /\ pc = "call"
    /\ args.f = "combine_reqs"
    /\ out' = [ret |-> "dict", dict |-> combine_reqs(args.reqs, hashOrder), keys |-> <<>>]
    /\ pc' = "returned"
    /\ UNCHANGED <<writer, StageVars, hashOrder, args>>

\* convert_to_unique_keys(d)
CallKeys ==
    /\ pc = "call"
    /\ args.f = "convert_to_unique_keys"
    /\ out' = [ret |-> "keys", dict |-> EmptyDict,
               keys |-> convert_to_unique_keys(args.reqs[1])]
    /\ pc' = "returned"
    /\ UNCHANGED <<writer, StageVars, hashOrder, args>>

\* equals(d1, d2)
CallEquals ==
    /\ pc = "call"
    /\ args.f = "equals"
    /\ out' = [ret |-> equals(args.reqs[1].d, args.reqs[2].d, args.names),
               dict |-> EmptyDict, keys |-> <<>>]
    /\ pc' = "returned"
    /\ UNCHANGED <<writer, StageVars, hashOrder, args>>

\* get_requirements() of an instance of args.tool that holds args.option,
\* called for the first time or once more; out.keys is convert_to_unique_keys
\* of what it returns
CallGetRequirements ==
    /\ pc \in {"call", "returned"}
    /\ args.f = "get_requirements"
    /\ LET r == get_requirements(args.tool, args.option)
       IN out' = [ret |-> IF r.nil THEN "None" ELSE "dict",
                  dict |-> IF r.nil THEN EmptyDict ELSE r.d,
                  keys |-> convert_to_unique_keys(r)]
    /\ pc' = "returned"
    /\ UNCHANGED <<writer, StageVars, hashOrder, args>>

NextAlgebra ==
    \/ CallCombine
    \/ CallKeys
    \/ CallEquals
    \/ CallGetRequirements

SpecAlgebra == InitAlgebra /\ [][NextAlgebra]_vars

\* ------------------------------------------ the stage methods called directly
MaxCalls == 3

\* stage types: without tools, with one tool, with two tools
StageRegistries ==
    {<<>>, <<ToolCsv>>, <<ToolCsvCar>>, <<ToolRaw>>, <<ToolRawOpt>>, <<ToolCsv, ToolRaw>>}

\* requirement dicts of the outside manager, or held by a stage beforehand
StageSeeds ==
    {EmptyDict,
     [n \in {"csv"} |-> List(<<"car">>)],
     [n \in {"csv"} |-> List(<<"car", "bus">>)],
     [n \in {"csv"} |-> None],
     [n \in {"raw"} |-> List(<<"car">>)]}

\* chains of two and three stages, and three stages of which the last
\* supplies both others
StageShapes ==
    {{<<1, 2>>}, {<<1, 2>>, <<2, 3>>}, {<<1, 2>>, <<1, 3>>, <<2, 3>>}}

\* the stages that are wired in
WiredStages == {s \in Stages : s = start_node \/ \E m \in Stages : s \in Range(suppliers[m])}

\* a well-wired shape of stages of any type, build(start_node) not running:
\* either the outside manager of start_node is seeded, or start_node has no
\* manager and holds requirements from before
InitStage ==
    /\ \/ \E E \in StageShapes : \E seed \in StageSeeds :
             /\ suppliers = SuppliersOf(E)
             /\ managers = [s \in Stages |->
                               IF s = start_node THEN <<Ext>> ELSE ManagersOf(E)[s]]
             /\ tools \in {t \in [Stages -> StageRegistries] :
                              \A s \in Stages \ ReachFrom(E, {start_node}) : t[s] = <<>>}
             /\ requirements = [s \in AllStages |-> IF s = Ext THEN seed ELSE EmptyDict]
       \/ \E seed \in StageSeeds :
             /\ suppliers = SuppliersOf({<<1, 2>>})
             /\ managers = ManagersOf({<<1, 2>>})
             /\ tools \in {t \in [Stages -> StageRegistries] :
                              \A s \in Stages \ {1, 2} : t[s] = <<>>}
             /\ requirements = [s \in AllStages |-> IF s = start_node THEN seed ELSE EmptyDict]
    /\ hashOrder \in HashOrders
    /\ depth = [s \in Stages |-> 0]
    /\ resources = [s \in Stages |-> <<>>]
    /\ supplier_resources = [s \in Stages |-> <<>>]
    /\ queue = <<>>
    /\ visited = <<>>
    /\ sequence = <<>>
    /\ return_queue = <<>>
    /\ result = <<>>
    /\ fault = NoFault
    /\ trace = <<>>
    /\ pc = "calls"
    /\ args = NoArgs
    /\ out = NoOut
    /\ writer = NoWriter

\* some wired stage's engage() is called; fault holds the exception of the
\* latest call, trace the calls that returned
CallEngage ==
    /\ pc = "calls"
    /\ Len(trace) < MaxCalls
    /\ \E s \in WiredStages :
          LET e == engage(s, managers, suppliers, tools, requirements,
                          resources, hashOrder)
          IN /\ resources' = [resources EXCEPT ![s] = e.resources]
             /\ requirements' = [requirements EXCEPT ![s] = e.requirements]
             /\ IF e.raised
                THEN /\ fault' = [kind |-> "option", node |-> s, names |-> {}]
                     /\ trace' = trace
                ELSE /\ fault' = NoFault
                     /\ trace' = Append(trace, [op |-> "engage", node |-> s])
    /\ UNCHANGED <<writer, suppliers, managers, tools, depth, supplier_resources,
                   hashOrder, args, out, pc, queue, visited, sequence,
                   return_queue, result>>

NextStage == CallEngage

SpecStage == InitStage /\ [][NextStage]_vars

\* ------------------------------- stages set up and built one by one, as the
\* test fixtures do: connect(managers=None, suppliers=...), load_all_tools(),
\* validate_suppliers(), build()
ToolRawBus == [ToolRaw EXCEPT !.valid_options = List(<<"bus">>)]

TestRegistries ==
    {<<>>, <<ToolRaw>>, <<ToolCsv>>, <<ToolRawOpt>>, <<ToolRawNoBus>>,
     <<ToolCsvCar, ToolRaw>>, <<ToolRaw, ToolCsvCar>>, <<ToolCsvCar, ToolRawBus>>}

\* the registries of the stage that supplies the stage under test
SupplierRegistries == {<<>>, <<ToolRaw>>, <<ToolRawOpt>>}

\* requirement dicts a stage may hold when validate_suppliers() is called
TestRequirements ==
    {EmptyDict,
     [n \in {"raw"} |-> None],
     [n \in {"raw"} |-> List(<<"car">>)],
     [n \in {"raw", "csv"} |-> IF n = "raw" THEN List(<<"car">>) ELSE None],
     [n \in {"foo"} |-> None]}

\* stage 1 alone, or with stage 2 as its supplier
TestShapes == {{}, {<<1, 2>>}}

\* stage 1 with the two suppliers 2 and 3
TestFork == {<<1, 2>>, <<1, 3>>}

\* stage 1 supplied by stage 2, stage 2 by stage 3, whose tools are loaded
TestChain == {<<1, 2>>, <<2, 3>>}

InitTest ==
    /\ \/ /\ suppliers = SuppliersOf(TestChain)
          /\ tools = [s \in Stages |-> IF s = 1 THEN <<ToolRaw, ToolCsvCar>>
                                        ELSE IF s = 2 THEN <<ToolRaw>>
                                        ELSE IF s = 3 THEN <<ToolCsv>> ELSE <<>>]
       \/ \E E \in TestShapes :
             /\ suppliers = SuppliersOf(E)
             /\ tools \in {t \in [Stages -> TestRegistries] :
                              /\ \A s \in Stages \ ReachFrom(E, {start_node}) : t[s] = <<>>
                              /\ \A s \in Stages \ {start_node} : t[s] \in SupplierRegistries}
       \/ /\ suppliers = SuppliersOf(TestFork)
          /\ tools \in {t \in [Stages -> TestRegistries] :
                           /\ t[1] = <<ToolCsv>>
                           /\ t[2] \in {<<ToolRaw>>, <<ToolRawOpt>>}
                           /\ t[3] \in {<<>>, <<ToolCsv>>}
                           /\ \A s \in Stages \ {1, 2, 3} : t[s] = <<>>}
    /\ managers = [s \in Stages |-> <<>>]
    /\ \E r \in TestRequirements :
          requirements = [s \in AllStages |-> IF s = start_node THEN r ELSE EmptyDict]
    /\ hashOrder = <<"car", "bus", "None">>
    /\ depth = [s \in Stages |-> 0]
    /\ resources = [s \in Stages |->
                        IF suppliers = SuppliersOf(TestChain) /\ s = 3
                        THEN load_all_tools(tools[3], <<>>, "car").resources
                        ELSE <<>>]
    /\ supplier_resources = [s \in Stages |-> <<>>]
    /\ queue = <<>>
    /\ visited = <<>>
    /\ sequence = <<>>
    /\ return_queue = <<>>
    /\ result = <<>>
    /\ fault = NoFault
    /\ trace = <<>>
    /\ pc = "tests"
    /\ args = NoArgs
    /\ out = NoOut
    /\ writer = NoWriter

\* load_all_tools() or load_all_tools(option) is called on a stage; here
\* trace holds the calls made and fault the exception of the latest call
CallLoadAll ==
    /\ pc = "tests"
    /\ Len(trace) < MaxCalls
    /\ \E s \in WiredStages : \E option \in {NoOption, "car", "bus"} :
          LET r == load_all_tools(tools[s], resources[s], option)
          IN /\ resources' = [resources EXCEPT ![s] = r.resources]
             /\ fault' = IF r.raised = "none" THEN NoFault
                         ELSE [kind |-> r.raised, node |-> s, names |-> {}]
             /\ trace' = Append(trace, [op |-> IF option = NoOption THEN "load_all_tools"
                                                ELSE "load_all_tools_option",
                                        node |-> s])
    /\ UNCHANGED <<writer, suppliers, managers, tools, depth, requirements,
                   supplier_resources, hashOrder, args, out, pc, queue, visited,
                   sequence, return_queue, result>>

\* validate_suppliers() is called on a stage
CallValidate ==
    /\ pc = "tests"
    /\ Len(trace) < MaxCalls
    /\ \E s \in WiredStages :
          LET missing == validate_suppliers(s, suppliers, tools, requirements)
          IN /\ fault' = IF missing = {} THEN NoFault
                         ELSE [kind |-> "wiring", node |-> s, names |-> missing]
             /\ trace' = Append(trace, [op |-> "validate_suppliers", node |-> s])
    /\ UNCHANGED <<writer, suppliers, managers, tools, depth, requirements, resources,
                   supplier_resources, hashOrder, args, out, pc, queue, visited,
                   sequence, return_queue, result>>

\* build() is called on a stage
CallBuild ==
    /\ pc = "tests"
    /\ Len(trace) < MaxCalls
    /\ \E s \in WiredStages :
          LET pool == gather_resources(supplier_resources[s], suppliers[s], resources)
              b == build_tools(s, tools[s], resources[s], 1, Keys(pool))
          IN /\ supplier_resources' = [supplier_resources EXCEPT ![s] = pool]
             /\ resources' = [resources EXCEPT ![s] = b.resources]
             /\ fault' = IF b.raised THEN [kind |-> "resource", node |-> s, names |-> b.missing]
                         ELSE NoFault
             /\ trace' = Append(trace, [op |-> "build", node |-> s])
    /\ UNCHANGED <<writer, suppliers, managers, tools, depth, requirements, hashOrder,
                   args, out, pc, queue, visited, sequence, return_queue, result>>

NextTest ==
    \/ CallLoadAll
    \/ CallValidate
    \/ CallBuild

SpecTest == InitTest /\ [][NextTest]_vars

\* ------------------------------------------------ a ChunkWriter in use
MaxChunkSize == 2
MaxLines == 2
MaxWriterCalls == 5

\* a ChunkWriter just constructed, nothing else set up
InitWriter ==
    /\ \E chunksize \in 0..MaxChunkSize : writer = ChunkWriter(chunksize)
    /\ suppliers = [s \in Stages |-> <<>>]
    /\ managers = [s \in Stages |-> <<>>]
    /\ tools = [s \in Stages |-> <<>>]
    /\ requirements = [s \in AllStages |-> EmptyDict]
    /\ depth = [s \in Stages |-> 0]
    /\ resources = [s \in Stages |-> <<>>]
    /\ supplier_resources = [s \in Stages |-> <<>>]
    /\ hashOrder = <<"car", "bus", "None">>
    /\ queue = <<>>
    /\ visited = <<>>
    /\ sequence = <<>>
    /\ return_queue = <<>>
    /\ result = <<>>
    /\ fault = NoFault
    /\ trace = <<>>
    /\ pc = "writing"
    /\ args = NoArgs
    /\ out = NoOut

\* add(lines) is called with a list of up to MaxLines lines; here trace
\* holds the calls made on the writer
CallAdd ==
    /\ pc = "writing"
    /\ Len(trace) < MaxWriterCalls
    /\ \E n \in 0..MaxLines : writer' = add(writer, n)
    /\ trace' = Append(trace, [op |-> "add", node |-> NoNode])
    /\ UNCHANGED <<suppliers, managers, tools, depth, requirements, resources,
                   supplier_resources, hashOrder, pc, queue, visited, sequence,
                   return_queue, result, fault, args, out>>

\* finish() is called
CallFinish ==
    /\ pc = "writing"
    /\ Len(trace) < MaxWriterCalls
    /\ writer' = finish(writer)
    /\ trace' = Append(trace, [op |-> "finish", node |-> NoNode])
    /\ UNCHANGED <<suppliers, managers, tools, depth, requirements, resources,
                   supplier_resources, hashOrder, pc, queue, visited, sequence,
                   return_queue, result, fault, args, out>>

NextWriter ==
    \/ CallAdd
    \/ CallFinish

SpecWriter == InitWriter /\ [][NextWriter]_vars

\* ------------------------------------------------- vocabulary of the claims
Edges == {e \in Stages \X Stages : e[2] \in Range(suppliers[e[1]])}
Reach == ReachFrom(Edges, {start_node})
ReachEdges == {e \in Edges : e[1] \in Reach}
\* a stage of the graph that a walk of one or more supplier edges leads back to
OnCycle(s) == s \in ReachFrom(Edges, Range(suppliers[s]))
HasCycle == \E s \in Reach : OnCycle(s)
\* supplier edges A->B whose supplier B does not list A as a manager
BrokenEdges == {e \in ReachEdges : e[1] \notin Range(managers[e[2]])}
Positions(op, s) == {i \in 1..Len(trace) : trace[i] = [op |-> op, node |-> s]}
Before(op, s, i) == \E j \in Positions(op, s) : j < i
Calls(op) == {i \in 1..Len(trace) : trace[i].op = op}
\* requirement names of s that no declared supplier of s registers
Unmet(s) ==
    {n \in DOMAIN requirements[s] :
        \A b \in Range(suppliers[s]) : n \notin ToolNames(tools[b])}
Untouched ==
    /\ trace = <<>>
    /\ \A s \in Stages :
          resources[s] = <<>> /\ requirements[s] = EmptyDict /\ depth[s] = 0

\* ------------------------------------------------------------------ claims
\* C1: on a graph that passed validation, the build pass calls build() on a
\* stage only after build() has completed on every one of its declared suppliers.
C1_SuppliersBuiltFirst ==
    (~HasCycle /\ BrokenEdges = {}) =>
        \A i \in Calls("build") :
            \A b \in Range(suppliers[trace[i].node]) : Before("built", b, i)

\* C2: in a run that returns, every stage reachable from start_node was
\* engaged exactly once and built exactly once, its engage before its build;
\* and at no time is a stage engaged after it was built.
C2_EngagedOnceBuiltOnce ==
    /\ pc = "done" =>
          \A s \in Reach :
             /\ Cardinality(Positions("engage", s)) = 1
             /\ Cardinality(Positions("build", s)) = 1
             /\ Cardinality(Positions("built", s)) = 1
             /\ \A i \in Positions("build", s) : Before("engage", s, i)
    /\ \A s \in Stages : \A i \in Positions("engage", s) : ~Before("build", s, i)

\* a returned run over a graph in which a stage has two managers
C2_Witness ==
    /\ pc = "done"
    /\ Cardinality(Reach) >= 3
    /\ \E s \in Reach : Cardinality({e \in ReachEdges : e[2] = s}) >= 2

\* C3: no build() is called before engage() (and validate_suppliers() for a
\* stage with suppliers) has completed for every reachable stage, no engage()
\* follows a build(), and after a fault of engage() or validate_suppliers()
\* no build() has been called.
C3_EngageThenBuild ==
    /\ \A i \in Calls("build") :
          /\ \A s \in Reach :
                /\ Before("engage", s, i)
                /\ suppliers[s] # <<>> => Before("validate", s, i)
          /\ \A j \in Calls("engage") \cup Calls("validate") : j < i
    /\ fault.kind \in {"option", "wiring"} => Calls("build") = {}

\* the build pass under way over three or more engaged stages
C3_Witness ==
    /\ pc = "building"
    /\ Calls("build") # {}
    /\ Cardinality(Reach) >= 3

\* C4: with a cycle or a broken link in the graph, build(start_node) raises the
\* graph-shape fault before anything is engaged: no instance is created and no
\* requirements, resources or depth change.
C4_ShapeFaultBeforeEngage ==
    (HasCycle \/ BrokenEdges # {}) =>
        /\ pc \in {"is_cyclic", "is_broken", "fault"}
        /\ pc = "fault" => fault.kind \in {"cyclic", "broken"}
        /\ Untouched

\* C5: on an acyclic graph whose every supplier edge has its manager entry,
\* is_cyclic and is_broken return nothing, the run raises no graph fault and,
\* once past validation, has start_node in the engagement pass's visit list.
C5_ValidGraphPasses ==
    (~HasCycle /\ BrokenEdges = {}) =>
        /\ is_cyclic(suppliers, start_node).ret = NoNode
        /\ is_broken(suppliers, managers, start_node).ret = NoNode
        /\ fault.kind \notin {"cyclic", "broken"}
        /\ pc \notin {"is_cyclic", "is_broken", "depth"} =>
              start_node \in Range(visited) \cup Range(sequence)

\* a valid graph with a stage reached along two paths, in the engagement pass
C5_Witness ==
    /\ ~HasCycle /\ BrokenEdges = {}
    /\ pc = "engaging"
    /\ \E s \in Reach : Cardinality({e \in ReachEdges : e[2] = s}) >= 2

\* C6: if a cycle of supplier edges is reachable from start_node, is_cyclic
\* returns a node and the run ends with the cycle fault.
C6_CycleDetected ==
    HasCycle =>
        /\ is_cyclic(suppliers, start_node).ret # NoNode
        /\ pc \in {"is_cyclic", "fault"}
        /\ pc = "fault" => fault.kind = "cyclic"

\* the cycle fault raised for a cycle that does not pass through start_node
C6_Witness ==
    /\ pc = "fault" /\ fault.kind = "cyclic"
    /\ ~OnCycle(start_node)

\* C7: the node the cycle check reports is the node that closes the cycle, the
\* one reached again while still on the current depth-first path.
C7_ReportsClosingNode ==
    fault.kind = "cyclic" => fault.node = is_cyclic(suppliers, start_node).closes

\* C8: on an acyclic graph in which some reachable supplier edge lacks its
\* manager entry, the run ends with the broken-link fault.
C8_BrokenLinkDetected ==
    (~HasCycle /\ BrokenEdges # {}) =>
        \/ pc \in {"is_cyclic", "is_broken"}
        \/ pc = "fault" /\ fault.kind = "broken"

\* C9: the node the broken-link check reports for a one-sided edge A->B is B.
C9_ReportsSupplier ==
    fault.kind = "broken" => \E e \in BrokenEdges : fault.node = e[2]

\* C10: once a stage is engaged with a requirement name that no declared
\* supplier registers (a stage without suppliers included), the run has failed
\* with the missing-requirements fault naming them and nothing is built.
C10_UnmetRaisesWiring ==
    \A s \in Stages :
        (Positions("engage", s) # {} /\ Unmet(s) # {}) =>
            /\ pc = "fault" /\ fault.kind = "wiring"
            /\ fault.node = s /\ fault.names = Unmet(s)
            /\ Calls("build") = {}

\* C10 as amended: the same for a stage that has at least one supplier.
C10_UnmetRaisesWiringWithSuppliers ==
    \A s \in Stages :
        (Positions("engage", s) # {} /\ suppliers[s] # <<>> /\ Unmet(s) # {}) =>
            /\ pc = "fault" /\ fault.kind = "wiring"
            /\ fault.node = s /\ fault.names = Unmet(s)
            /\ Calls("build") = {}

\* the wiring fault raised for a stage that is not start_node
C10_Witness ==
    /\ pc = "fault" /\ fault.kind = "wiring"
    /\ fault.node # start_node
    /\ fault.names # {}

\* the option o passes the lists of the descriptor: no allow-list or an empty
\* one or o on it, and no deny-list or an empty one or o not on it
Allowed(tool, o) ==
    /\ \/ tool.valid_options.nil
       \/ tool.valid_options.opts = <<>>
       \/ o \in Range(tool.valid_options.opts)
    /\ \/ tool.invalid_options.nil
       \/ tool.invalid_options.opts = <<>>
       \/ o \notin Range(tool.invalid_options.opts)

\* the options the managers of s ask of the tool called name
Asked(s, name) ==
    UNION {Range(requirements[m][name].opts) :
           m \in {k \in Range(managers[s]) : name \in DOMAIN requirements[k]}}

\* the constructions the managers of s demand of its registry: the tool, the
\* option handed to the constructor and the key the instance is kept under
Demands(s) ==
    UNION {{[tool |-> t, option |-> o, key |-> t.name \o ":" \o o] :
               o \in Asked(s, t.name)} : t \in Range(tools[s])}
    \cup {[tool |-> t, option |-> NoOption, key |-> t.name] :
            t \in {u \in Range(tools[s]) :
                     /\ \E m \in Range(managers[s]) : u.name \in DOMAIN requirements[m]
                     /\ Asked(s, u.name) = {}}}

LastCall == IF trace = <<>> THEN [op |-> "none", node |-> NoNode] ELSE trace[Len(trace)]

\* C11: a tool is constructed and keeps its option iff the option passes the
\* descriptor's allow-list and deny-list: every instance a stage holds has an
\* allowed option; when engage() has just returned, every demanded construction
\* was allowed and its instance is kept under its key with its option; and an
\* invalid-option fault means some demanded construction was not allowed, its
\* key is not in the stage's resources, the stage's engage() did not return and
\* no build() was called.
C11_OptionValidated ==
    /\ \A s \in Stages : \A i \in 1..Len(resources[s]) :
          \E t \in Range(tools[s]) :
             t.name = resources[s][i].name /\ Allowed(t, resources[s][i].option)
    /\ (pc = "engaging" /\ LastCall.op \in {"engage", "validate"}) =>
          \A d \in Demands(LastCall.node) :
             /\ Allowed(d.tool, d.option)
             /\ \E i \in 1..Len(resources[LastCall.node]) :
                   /\ resources[LastCall.node][i].key = d.key
                   /\ resources[LastCall.node][i].option = d.option
    /\ fault.kind = "option" =>
          /\ \E d \in Demands(fault.node) :
                ~Allowed(d.tool, d.option) /\ d.key \notin Keys(resources[fault.node])
          /\ Positions("engage", fault.node) = {}
          /\ Calls("build") = {}
          /\ result = <<>>

\* managers demand "bus" of a tool whose allow-list is ["car"]: engage() raised
C11_Witness ==
    /\ fault.kind = "option"
    /\ fault.node # start_node
    /\ [tool |-> ToolCsvCar, option |-> "bus", key |-> "csv:bus"] \in Demands(fault.node)

\* the chain Root -> Mid -> Leaf: Root (1) without tools, its outside manager
\* seeded with {csv: [car]}; Mid (2) registers csv, which carries its option
\* through to its requirement raw; Leaf (3) registers raw, which takes no
\* option and requires nothing
ChainScenario ==
    /\ suppliers = SuppliersOf({<<1, 2>>, <<2, 3>>})
    /\ managers = [s \in Stages |-> IF s = 1 THEN <<Ext>> ELSE ManagersOf({<<1, 2>>, <<2, 3>>})[s]]
    /\ tools = [s \in Stages |-> IF s = 2 THEN <<ToolCsv>> ELSE IF s = 3 THEN <<ToolRaw>> ELSE <<>>]
    /\ requirements[Ext] = [n \in {"csv"} |-> List(<<"car">>)]

\* C12: in the chain scenario the engagement pass raises nothing, and once
\* Leaf is engaged Mid's resources have exactly the key "csv:car", Mid's
\* requirements are {raw: None} and Leaf's resources have exactly the key "raw".
C12_ChainEngaged ==
    ChainScenario =>
        /\ fault.kind \notin {"option", "wiring"}
        /\ Positions("engage", 3) # {} =>
              /\ Keys(resources[2]) = {"csv:car"}
              /\ requirements[2] = [n \in {"raw"} |-> None]
              /\ Keys(resources[3]) = {"raw"}

\* the chain scenario with the engagement pass just finished
C12_Witness ==
    /\ ChainScenario
    /\ pc = "building"
    /\ return_queue = <<3, 2, 1>>
    /\ Calls("build") = {}

\* C13: in the chain scenario, with the default Tool.build, build(start_node)
\* raises nothing and returns [Root, Mid, Leaf, Leaf, Mid, Root], having built
\* Leaf, then Mid, then Root.
C13_ChainBuilds ==
    ChainScenario =>
        /\ fault = NoFault
        /\ pc = "done" =>
              /\ result = <<1, 2, 3, 3, 2, 1>>
              /\ [i \in 1..Len(visited) |-> visited[i]] = <<3, 2, 1>>

\* the keys of a resources dict in insertion order
KeySeq(res) == [i \in 1..Len(res) |-> res[i].key]

\* a requirements dict as a mapping from name to None or a set of options
ReqView(d) == [n \in DOMAIN d |-> [nil |-> d[n].nil, options |-> Range(d[n].opts)]]

\* C14: two executions of build(start_node) that stand in the same state of
\* stages, lists, registries, requirements and depths go on alike, whatever
\* else differs between the two processes (the iteration order of their sets
\* of strings): the stage engaged next ends with the same instantiated keys in
\* the same order, the same requirement set and the same outcome.
C14_Deterministic ==
    (pc = "engaging" /\ queue # <<>>) =>
        \A order \in HashOrders :
            LET here == engage(Head(queue), managers, suppliers, tools,
                               requirements, resources, hashOrder)
                there == engage(Head(queue), managers, suppliers, tools,
                                requirements, resources, order)
            IN /\ here.raised = there.raised
               /\ here.raised \/ KeySeq(here.resources) = KeySeq(there.resources)
               /\ ReqView(here.requirements) = ReqView(there.requirements)

\* the stages on which op was called, in the order of the calls
OrderOf(op) ==
    LET calls == SelectSeq(trace, LAMBDA e : e.op = op)
    IN [i \in 1..Len(calls) |-> calls[i].node]

\* C15: the list a run returns is the engagement order followed by the build
\* order, and the build order is the engagement order reversed: with N stages
\* reachable from start_node its length is 2N, its first N entries are
\* pairwise distinct and are the reachable stages, entry i equals entry
\* 2N+1-i (counting from 1), and it begins and ends with start_node.
C15_ResultIsPalindrome ==
    pc = "done" =>
        LET N == Cardinality(Reach) IN
        /\ Len(result) = 2 * N
        /\ SubSeq(result, 1, N) = OrderOf("engage")
        /\ SubSeq(result, N + 1, 2 * N) = OrderOf("build")
        /\ {result[i] : i \in 1..N} = Reach
        /\ \A i \in 1..N : \A j \in 1..N : result[i] = result[j] => i = j
        /\ \A i \in 1..(2 * N) : result[i] = result[2 * N + 1 - i]
        /\ result[1] = start_node
        /\ result[2 * N] = start_node

\* a run on four stages has returned
C15_Witness ==
    /\ pc = "done"
    /\ Len(result) = 8

\* combine_reqs was called on n dicts and has returned
Combined(n) == pc = "returned" /\ args.f = "combine_reqs" /\ Len(args.reqs) = n

\* C16: combine_reqs does not depend on the order or the grouping of its
\* arguments, its results compared as mappings from name to None or a set of
\* options: combine([a, b]) = combine([b, a]); combine([combine([a, b]), c]),
\* combine([a, combine([b, c])]) and combine([a, b, c]) are equal; and
\* combine([]) returns the empty dict.
C16_CombineOrderFree ==
    LET combine(reqs) == combine_reqs(reqs, hashOrder)
        a == args.reqs[1]
        b == args.reqs[2]
        c == args.reqs[3]
    IN /\ Combined(0) => out.ret = "dict" /\ out.dict = EmptyDict
       /\ Combined(2) =>
             /\ out.dict = combine(<<a, b>>)
             /\ ReqView(out.dict) = ReqView(combine(<<b, a>>))
       /\ Combined(3) =>
             /\ out.dict = combine(<<a, b, c>>)
             /\ ReqView(out.dict) = ReqView(combine(<<Dict(combine(<<a, b>>)), c>>))
             /\ ReqView(out.dict) = ReqView(combine(<<a, Dict(combine(<<b, c>>))>>))

\* three dicts that each give the name x something else were combined
C16_Witness ==
    /\ Combined(3)
    /\ args.reqs[1] = Dict([n \in {"x"} |-> List(<<"car">>)])
    /\ args.reqs[2] = Dict([n \in {"x"} |-> List(<<"bus">>)])
    /\ args.reqs[3] = Dict([n \in {"x", "y"} |-> None])
    /\ ReqView(out.dict)["x"].options = {"car", "bus"}

\* the arguments of the call that are dicts and have the name n
Having(n) == {i \in 1..Len(args.reqs) : ~args.reqs[i].nil /\ n \in DOMAIN args.reqs[i].d}

\* the options the arguments give for the name n
Given(n) == UNION {Range(args.reqs[i].d[n].opts) : i \in {j \in Having(n) : ~args.reqs[j].d[n].nil}}

\* C17: the names of combine_reqs(reqs) are the names of all the dicts in reqs;
\* a name maps to the union of the options given for it, each option once, if
\* that union is not empty, and to None otherwise; so an entry that is None, or
\* a dict without the name, takes no option away.
C17_CombineIsUnion ==
    (pc = "returned" /\ args.f = "combine_reqs") =>
        /\ DOMAIN out.dict =
              UNION {DOMAIN args.reqs[i].d : i \in {j \in 1..Len(args.reqs) : ~args.reqs[j].nil}}
        /\ \A n \in DOMAIN out.dict :
              IF Given(n) = {} THEN out.dict[n] = None
              ELSE /\ ~out.dict[n].nil
                   /\ Range(out.dict[n].opts) = Given(n)
                   /\ Len(out.dict[n].opts) = Cardinality(Given(n))

\* combine([{x: [car, bus]}, {x: [car]}, {x: None}]) has returned {x: {car, bus}}
C17_Witness ==
    /\ Combined(3)
    /\ args.reqs[1] = Dict([n \in {"x"} |-> List(<<"car", "bus">>)])
    /\ args.reqs[2] = Dict([n \in {"x"} |-> List(<<"car">>)])
    /\ args.reqs[3] = Dict([n \in {"x"} |-> None])
    /\ ReqView(out.dict) = [n \in {"x"} |-> [nil |-> FALSE, options |-> {"car", "bus"}]]

\* C18: convert_to_unique_keys(d) returns the keys "name:option" for every
\* name of d with a non-empty list of options and every option on it, and the
\* bare name for every name that maps to None or to an empty list, and no
\* other key; for None and for the empty dict it returns no key.
C18_UniqueKeys ==
    (pc = "returned" /\ args.f = "convert_to_unique_keys") =>
        LET r == args.reqs[1] IN
        /\ out.ret = "keys"
        /\ r.nil => out.keys = <<>>
        /\ ~r.nil =>
              Range(out.keys) =
                 UNION {{n \o ":" \o o : o \in Range(r.d[n].opts)} : n \in DOMAIN r.d}
                 \cup {n \in DOMAIN r.d : r.d[n].nil \/ r.d[n].opts = <<>>}

\* convert_to_unique_keys({x: [car, bus], y: None}) has returned x:car, x:bus, y
C18_Witness ==
    /\ pc = "returned"
    /\ args.f = "convert_to_unique_keys"
    /\ args.reqs[1] = Dict([n \in {"x", "y"} |->
                              IF n = "x" THEN List(<<"car", "bus">>) ELSE None])
    /\ Range(out.keys) = {"x:car", "x:bus", "y"}

\* C19: equals(d1, d2) is true iff d1 and d2 have the same names and, for
\* every name, either both map it to None or both map it to lists holding the
\* same options, whatever the order and however often an option is repeated.
C19_EqualsAsSets ==
    (pc = "returned" /\ args.f = "equals") =>
        LET d1 == args.reqs[1].d
            d2 == args.reqs[2].d
        IN out.ret = "True" <=>
              /\ DOMAIN d1 = DOMAIN d2
              /\ \A k \in DOMAIN d1 :
                    \/ d1[k].nil /\ d2[k].nil
                    \/ /\ ~d1[k].nil /\ ~d2[k].nil
                       /\ Range(d1[k].opts) = Range(d2[k].opts)

\* C20: engage() called on a stage right after engage() returned on that same
\* stage, nothing else called in between, leaves the stage with the
\* requirements the first call left and with the same instantiated keys.
C20_EngageIdempotent ==
    [][\A s \in Stages :
          (/\ LastCall = [op |-> "engage", node |-> s]
           /\ fault = NoFault
           /\ trace' = Append(trace, [op |-> "engage", node |-> s]))
          => /\ requirements'[s] = requirements[s]
             /\ Keys(resources'[s]) = Keys(resources[s])
             /\ fault' = NoFault]_vars

\* engage() has returned twice in a row on a stage that instantiated tools and
\* has requirements of its own
C20_Witness ==
    /\ pc = "calls"
    /\ Len(trace) >= 2
    /\ trace[Len(trace)] = trace[Len(trace) - 1]
    /\ fault = NoFault
    /\ resources[LastCall.node] # <<>>
    /\ requirements[LastCall.node] # EmptyDict

\* C21: load_all_tools() without an option as the first call on a stage,
\* whatever its registry of tools without allow-list and tools with (non-empty)
\* allow-lists, raises nothing and leaves one instance per registered tool
\* under the tool's bare name: set(resources) == set(tools) afterwards, and
\* still after the build() that follows.
C21_LoadAllTools ==
    \A s \in Stages :
        (/\ trace # <<>>
         /\ trace[1] = [op |-> "load_all_tools", node |-> s]
         /\ \A i \in 1..Len(tools[s]) :
               tools[s][i].valid_options.nil \/ tools[s][i].valid_options.opts # <<>>) =>
            /\ Len(trace) = 1 =>
                  /\ fault = NoFault
                  /\ KeySeq(resources[s]) = [i \in 1..Len(tools[s]) |-> tools[s][i].name]
            /\ (Len(trace) = 2 /\ trace[2] = [op |-> "build", node |-> s]) =>
                  Keys(resources[s]) = ToolNames(tools[s])

\* the stages with a supplier edge to s
Into(s) == {e[1] : e \in {f \in ReachEdges : f[2] = s}}

Max(S) == CHOOSE x \in S : \A y \in S : y <= x

\* the largest number of supplier edges on a path of at most n edges from
\* start_node to each stage (0 for a stage no such path reaches)
RECURSIVE Hops(_)
Hops(n) ==
    IF n = 0 THEN [s \in Stages |-> 0]
    ELSE CHOOSE h \in {[s \in Stages |->
                          IF s = start_node THEN 0
                          ELSE Max({0} \cup {before[m] + 1 :
                                             m \in {k \in Into(s) :
                                                      k = start_node \/ before[k] > 0}})] :
                       before \in {Hops(n - 1)}} : TRUE

\* build_graph_depth(start_node) runs in this step
DepthWalked == pc = "depth" /\ pc' # "depth"

\* C22: build_graph_depth(start_node) on an acyclic graph whose stages all
\* had depth 0 leaves start_node with depth 0 and every reachable stage with,
\* as depth, the largest number of supplier edges on a path from start_node
\* to it; and no assignment the walk makes lowers a stage's depth.
C22_DepthIsLongestPath ==
    [][(DepthWalked /\ ~HasCycle) =>
          /\ depth'[start_node] = 0
          /\ \E h \in {Hops(NumStages)} : \A s \in Reach : depth'[s] = h[s]
          /\ LET w == depth_walk(suppliers, depth, start_node, 0, <<>>) IN
             /\ w.depth = depth'
             /\ \A i \in 1..Len(w.writes) : w.writes[i].old < w.writes[i].new]_vars

\* a stage reached over one edge and over three has depth 3
C22_Witness ==
    /\ pc = "engaging" /\ queue = <<start_node>> /\ trace = <<>>
    /\ \E s \in Reach : s \in Range(suppliers[start_node]) /\ depth[s] = 3

\* the name n is registered by a declared supplier of s with a tool that does
\* not carry options through
OptionLess(s, n) ==
    \E t \in Range(suppliers[s]) : \E u \in Range(tools[t]) :
        u.name = n /\ ~u.options_enabled

\* the options the constructions demanded of s forward for the name n
Forwarded(s, n) ==
    {d.option : d \in {e \in Demands(s) :
                         n \in Range(e.tool.requirements) /\ e.tool.options_enabled}}

\* engage() is called on s in this step and returns
EngageReturns(s) == trace' = Append(trace, [op |-> "engage", node |-> s])

\* C23 as stated: once engage() has returned on a stage, with or without a
\* registry of its own, the stage's requirements have no entry with a
\* non-empty list of options under a name that a declared supplier registers
\* with a tool that does not carry options through.
C23_NoOptionsForOptionLess ==
    \A s \in Stages :
        (LastCall = [op |-> "engage", node |-> s] /\ fault = NoFault)
        => \A n \in DOMAIN requirements[s] :
              OptionLess(s, n) => ~Truthy(requirements[s][n])

\* C23: when engage() returns on a stage that has a registry of its own, the
\* stage's requirements are the names its constructed tools require; an entry
\* whose name a declared supplier registers with a tool that does not carry
\* options through is None, every other entry holds the options that combine
\* computed from the constructed tools (None when there are none).
C23_CleanedWithRegistry ==
    [][\A s \in Stages :
          (EngageReturns(s) /\ tools[s] # <<>>)
          => /\ DOMAIN requirements'[s] =
                   UNION {Range(d.tool.requirements) : d \in Demands(s)}
             /\ \A n \in DOMAIN requirements'[s] :
                   IF OptionLess(s, n) \/ Forwarded(s, n) = {}
                   THEN requirements'[s][n] = None
                   ELSE /\ ~requirements'[s][n].nil
                        /\ Range(requirements'[s][n].opts) = Forwarded(s, n)]_vars

\* engage() has returned on a stage with a registry whose tool forwards the
\* option "car" for raw: one supplier registers raw without options and the
\* entry is None
C23_Witness ==
    /\ pc = "calls"
    /\ fault = NoFault
    /\ LastCall.op = "engage"
    /\ tools[LastCall.node] # <<>>
    /\ \E r \in Range(resources[LastCall.node]) : r.name = "csv" /\ r.option = "car"
    /\ OptionLess(LastCall.node, "raw")
    /\ requirements[LastCall.node] = [n \in {"raw"} |-> None]

\* the place of the tool called name in the registry of s
RegistryIndex(s, name) == CHOOSE i \in 1..Len(tools[s]) : tools[s][i].name = name

\* the managers of s connected in the opposite order
ManagersReversed(s) == [managers EXCEPT ![s] = Reverse(managers[s])]

\* C24: when engage() returns on a stage that has a registry and held no
\* instance, the keys of its resources are exactly: for each name that its
\* managers demand and its registry holds, "name:o" for each option o the
\* managers ask of it, and "name" alone when they ask none; the keys stand
\* grouped by tool in the order of the registry, and the keys and the order of
\* the groups are the same when the managers are connected in the opposite
\* order.
C24_KeysInstantiated ==
    [][\A s \in Stages :
          (EngageReturns(s) /\ tools[s] # <<>> /\ resources[s] = <<>>)
          => LET keys == KeySeq(resources'[s]) IN
             /\ Range(keys) = {d.key : d \in Demands(s)}
             /\ Len(keys) = Cardinality(Range(keys))
             /\ \A i, j \in 1..Len(keys) :
                   i < j => RegistryIndex(s, resources'[s][i].name)
                               <= RegistryIndex(s, resources'[s][j].name)
             /\ LET other == engage(s, ManagersReversed(s), suppliers, tools,
                                     requirements, resources, hashOrder).resources
                IN /\ Keys(other) = Range(keys)
                   /\ [i \in 1..Len(other) |-> other[i].name]
                         = [i \in 1..Len(keys) |-> resources'[s][i].name]]_vars

\* engage() has returned on a stage with two managers and two tools: one
\* manager demands csv with two options, the other raw; three instances in
\* two groups, and a registered name that is demanded next to one that is
\* demanded with no option
C24_Witness ==
    /\ pc = "calls"
    /\ fault = NoFault
    /\ LastCall = [op |-> "engage", node |-> 3]
    /\ Len(managers[3]) = 2
    /\ "csv" \in DOMAIN requirements[managers[3][1]]
    /\ "raw" \in DOMAIN requirements[managers[3][2]]
    /\ "csv" \notin DOMAIN requirements[managers[3][2]]
    /\ Len(tools[3]) = 2
    /\ Len(resources[3]) = 3
    /\ \E i \in 1..3 : resources[3][i].key = "raw"

\* the names the managers of s demand
Demanded(s) == UNION {DOMAIN requirements[m] : m \in Range(managers[s])}

\* engage() is called on s in this step and raises
EngageRaises(s) ==
    /\ trace' = trace
    /\ fault' # fault
    /\ fault' = [kind |-> "option", node |-> s, names |-> {}]

\* C25: engage() on a stage without a registry returns, leaves the stage's
\* instances as they were and sets its requirements to what its managers
\* demand now: the names any manager demands, each with the options the
\* managers ask of it, None when they ask none. engage() on a stage without
\* managers returns, leaves the instances as they were and the requirements
\* empty, whatever they were and whatever the registry.
C25_PassThrough ==
    [][\A s \in Stages :
          /\ (tools[s] = <<>> \/ managers[s] = <<>>) => ~EngageRaises(s)
          /\ (EngageReturns(s) /\ tools[s] = <<>>)
             => /\ resources'[s] = resources[s]
                /\ DOMAIN requirements'[s] = Demanded(s)
                /\ \A n \in Demanded(s) :
                      IF Asked(s, n) = {} THEN requirements'[s][n] = None
                      ELSE /\ ~requirements'[s][n].nil
                           /\ Range(requirements'[s][n].opts) = Asked(s, n)
          /\ (EngageReturns(s) /\ managers[s] = <<>>)
             => /\ resources'[s] = resources[s]
                /\ requirements'[s] = EmptyDict]_vars

\* a stage without managers but with a registry held requirements, which its
\* supplier, a stage without registry, took over when it was engaged; then
\* the stage without managers was engaged and holds none
C25_Witness ==
    /\ pc = "calls"
    /\ fault = NoFault
    /\ trace = <<[op |-> "engage", node |-> 2], [op |-> "engage", node |-> 1]>>
    /\ managers[1] = <<>> /\ tools[1] # <<>>
    /\ managers[2] = <<1>> /\ tools[2] = <<>>
    /\ requirements[2] # EmptyDict
    /\ requirements[1] = EmptyDict
    /\ resources[1] = <<>>

\* the state of the stages: wiring, registries, requirements and instances
StageState ==
    <<suppliers, managers, tools, depth, requirements, resources, supplier_resources>>

\* the requirement names of s that no declared supplier of s registers
Unregistered(s) ==
    {n \in DOMAIN requirements[s] :
        \A t \in Range(suppliers[s]) : \A i \in 1..Len(tools[t]) : tools[t][i].name # n}

\* C26: validate_suppliers() on a stage raises the missing-requirements error,
\* naming the unmet names, iff some name of the stage's requirements is
\* registered by none of its declared suppliers, whatever the options of the
\* entry; and the call leaves the state of every stage as it was.
C26_ValidateSuppliers ==
    [][\A s \in Stages :
          trace' = Append(trace, [op |-> "validate_suppliers", node |-> s])
          => /\ UNCHANGED StageState
             /\ IF Unregistered(s) = {} THEN fault' = NoFault
                ELSE fault' = [kind |-> "wiring", node |-> s, names |-> Unregistered(s)]]_vars

\* validate_suppliers() returned on a stage with two suppliers that demands
\* two names, raw with an option: each supplier registers one of them, and
\* the tool called raw does not carry options through
C26_Witness ==
    /\ pc = "tests"
    /\ LastCall = [op |-> "validate_suppliers", node |-> 1]
    /\ fault = NoFault
    /\ Len(suppliers[1]) = 2
    /\ DOMAIN requirements[1] = {"raw", "csv"}
    /\ Truthy(requirements[1]["raw"])
    /\ tools[2] = <<ToolRaw>>
    /\ tools[3] = <<ToolCsv>>

\* build() is called on s in this step
BuildCalled(s) ==
    /\ Len(trace') > Len(trace)
    /\ trace'[Len(trace) + 1] = [op |-> "build", node |-> s]

\* the descriptor of the i-th instance of s
ToolOf(s, i) == CHOOSE t \in Range(tools[s]) : t.name = resources[s][i].name

\* toUniqueKeys(declaredNeeds()) of the i-th instance of s
NeedKeys(s, i) ==
    Range(convert_to_unique_keys(get_requirements(ToolOf(s, i), resources[s][i].option)))

\* the keys of the pool the instances of s are handed in this step
GivenPool(s) == Keys(supplier_resources'[s])

\* Tool.build is called on the i-th instance of s in this step: build() is
\* called on s and no earlier instance raises
ToolBuildCalled(s, i) ==
    /\ BuildCalled(s)
    /\ i \in 1..Len(resources[s])
    /\ \A j \in 1..(i - 1) : NeedKeys(s, j) \subseteq GivenPool(s)

\* C27: Tool.build(pool), called on an instance, raises iff some key of
\* convert_to_unique_keys(get_requirements()) is not a key of the pool; when
\* it raises the instance keeps the pool reference it had, when it returns
\* the instance refers to the given pool; and the pool holds what the stage
\* gathered, no key more and none less.
C27_ToolBuild ==
    [][\A s \in Stages :
          /\ \A i \in 1..Len(resources[s]) :
                ToolBuildCalled(s, i)
                => IF NeedKeys(s, i) \subseteq GivenPool(s)
                   THEN resources'[s][i] = [resources[s][i] EXCEPT !.pool = s]
                   ELSE /\ resources'[s][i] = resources[s][i]
                        /\ fault' = [kind |-> "resource", node |-> s,
                                     names |-> NeedKeys(s, i) \ GivenPool(s)]
          /\ BuildCalled(s)
             => /\ (fault' # fault) <=>
                      \E i \in 1..Len(resources[s]) : ~(NeedKeys(s, i) \subseteq GivenPool(s))
                /\ GivenPool(s) = Keys(supplier_resources[s])
                      \cup UNION {Keys(resources[t]) : t \in Range(suppliers[s])}]_vars

\* an instance that needs the key "raw:car" was built: the pool of its stage
\* holds the key and the instance refers to the pool
C27_Witness ==
    \E s \in Stages : \E i \in 1..Len(resources[s]) :
        /\ NeedKeys(s, i) = {"raw:car"}
        /\ "raw:car" \in Keys(supplier_resources[s])
        /\ resources[s][i].pool = s

LastHolder(s, k) ==
    LET at == {i \in 1..Len(suppliers[s]) : k \in Keys(resources[suppliers[s][i]])}
    IN suppliers[s][CHOOSE i \in at : \A j \in at : j <= i]

\* the entry of the imported resources d under the key k
Entry(d, k) == CHOOSE e \in Range(d) : e.key = k

\* C29: build() on a stage first takes every entry of the resources of every
\* declared supplier into supplier_resources, which then holds the keys it
\* held and the keys of the direct suppliers, each such key bound to the last
\* supplier that holds it, and nothing of any other stage; only then are the
\* stage's instances built, one after the other in the order of its
\* resources, each with that map: all of them when build() returns, and when
\* it raises those before the first instance that misses a key of the map.
C29_StageBuild ==
    [][\A s \in Stages :
          BuildCalled(s)
          => LET imported == supplier_resources'[s]
                 held == UNION {Keys(resources[t]) : t \in Range(suppliers[s])}
                 own == resources[s]
                 failing == {i \in 1..Len(own) : ~(NeedKeys(s, i) \subseteq Keys(imported))}
             IN /\ Keys(imported) = Keys(supplier_resources[s]) \cup held
                /\ Len(imported) = Cardinality(Keys(imported))
                /\ \A k \in held : Entry(imported, k).owner = LastHolder(s, k)
                /\ \A k \in Keys(imported) \ held :
                      Entry(imported, k) = Entry(supplier_resources[s], k)
                /\ Len(resources'[s]) = Len(own)
                /\ \A i \in 1..Len(own) :
                      resources'[s][i] =
                         IF \A j \in failing : i < j
                         THEN [own[i] EXCEPT !.pool = s] ELSE own[i]
                /\ fault' = IF failing = {} THEN NoFault
                            ELSE [kind |-> "resource", node |-> s,
                                  names |-> NeedKeys(s, CHOOSE i \in failing :
                                                          \A j \in failing : i <= j)
                                              \ Keys(imported)]]_vars

\* build() was called on stage 1, whose supplier 2 is supplied by stage 3, all
\* with instances: the map of stage 1 holds the key of stage 2 alone, its
\* first instance was built with it and its second instance, which misses a
\* key, was not
C29_Witness ==
    /\ pc = "tests"
    /\ LastCall = [op |-> "build", node |-> 1]
    /\ suppliers[2] = <<3>>
    /\ KeySeq(resources[3]) = <<"csv">>
    /\ KeySeq(resources[2]) = <<"raw">>
    /\ KeySeq(supplier_resources[1]) = <<"raw">>
    /\ Len(resources[1]) = 2
    /\ resources[1][1].pool = 1
    /\ resources[1][2].pool = NoNode
    /\ fault.kind = "resource"

\* C30: every instance a stage holds is kept under the bare name of its tool
\* when it has no option and under "name:option" when it has one, the name
\* being registered by the stage; no list of options in the requirements of
\* any stage holds an absent option; and two instances of one tool with
\* different options have different keys.
C30_KeysFollowOptions ==
    \A s \in Stages :
        /\ \A i \in 1..Len(resources[s]) :
              LET r == resources[s][i] IN
              /\ r.name \in ToolNames(tools[s])
              /\ r.key = IF r.option = NoOption THEN r.name
                         ELSE r.name \o ":" \o r.option
        /\ \A n \in DOMAIN requirements[s] :
              NoOption \notin Range(requirements[s][n].opts)
        /\ \A i, j \in 1..Len(resources[s]) :
              (resources[s][i].name = resources[s][j].name
                  /\ resources[s][i].option # resources[s][j].option)
              => resources[s][i].key # resources[s][j].key

\* one turn of the engagement loop engages and validates the head of the
\* queue and goes on
EngagedAndValidated == pc = "engaging" /\ queue # <<>> /\ pc' = "engaging"

\* the place of the stage x in the supplier list of s
SupplierIndex(s, x) == CHOOSE i \in 1..Len(suppliers[s]) : suppliers[s][i] = x

\* C31: a turn of the engagement loop that engages and validates a stage
\* takes that stage from the head of the queue, leaves the stages behind it
\* in their order and appends, to the queue and to the visit list alike, the
\* suppliers of the stage that are not in the visit list, each once, in
\* ascending depth, suppliers of equal depth in the order of the stage's
\* supplier list.
C31_EnqueuedByDepth ==
    [][EngagedAndValidated =>
          LET current == Head(queue)
              added == SubSeq(queue', Len(queue), Len(queue'))
          IN /\ trace'[Len(trace) + 1] = [op |-> "engage", node |-> current]
             /\ Len(queue') >= Len(queue) - 1
             /\ SubSeq(queue', 1, Len(queue) - 1) = Tail(queue)
             /\ visited' = visited \o added
             /\ Range(added) = Range(suppliers[current]) \ Range(visited)
             /\ Len(added) = Cardinality(Range(added))
             /\ \A i, j \in 1..Len(added) :
                   i < j =>
                      \/ depth[added[i]] < depth[added[j]]
                      \/ /\ depth[added[i]] = depth[added[j]]
                         /\ SupplierIndex(current, added[i])
                               < SupplierIndex(current, added[j])]_vars

\* the engagement pass has enqueued two suppliers of one stage against the
\* order of the stage's supplier list, the deeper one last, and a stage that
\* two engaged stages list as supplier stands once in the visit list
C31_Witness ==
    /\ pc = "engaging"
    /\ \E s \in Stages : \E i, j \in 1..Len(visited) :
          /\ i < j
          /\ visited[i] \in Range(suppliers[s]) /\ visited[j] \in Range(suppliers[s])
          /\ SupplierIndex(s, visited[j]) < SupplierIndex(s, visited[i])
          /\ depth[visited[i]] < depth[visited[j]]
          /\ visited[j] \in Range(suppliers[visited[i]])
          /\ [op |-> "validate", node |-> visited[i]] \in Range(trace)

\* the keys of the instances the declared suppliers of s hold
HeldBySuppliers(s) == UNION {Keys(resources[t]) : t \in Range(suppliers[s])}

\* C32: once the graph checks and the whole engagement pass have succeeded,
\* the build pass raises no missing-requirement error: for every engaged
\* stage and every instance it holds, each key of
\* convert_to_unique_keys(get_requirements()) is a key of the resources of
\* some declared supplier of the stage.
C32_BuildNeedsMet ==
    /\ fault.kind # "resource"
    /\ pc = "building"
       => \A s \in Range(sequence) : \A i \in 1..Len(resources[s]) :
             NeedKeys(s, i) \subseteq HeldBySuppliers(s)

\* C33: in a run on a graph that passed the checks, engage() is called on a
\* stage only after it was called on each of the stage's managers that can be
\* reached from start_node; and when the engagement pass is over every stage
\* holds, for each name a reachable manager demands and the stage registers,
\* an instance under each key of that demand.
C33_ManagersEngagedFirst ==
    /\ \A i \in Calls("engage") :
          \A m \in Range(managers[trace[i].node]) \cap Reach : Before("engage", m, i)
    /\ pc = "building"
       => \A s \in Range(sequence) : \A m \in Range(managers[s]) \cap Reach :
             \A n \in DOMAIN requirements[m] \cap ToolNames(tools[s]) :
                Range(EntryKeys(n, requirements[m][n])) \subseteq Keys(resources[s])

\* build(start_node) has returned or raised
RunEnds == pc \in {"done", "fault"}

\* C34: build(start_node) ends on every graph: with the cycle or broken-link
\* error on a graph that has a reachable cycle or a reachable supplier edge
\* without its manager entry, and on any other graph with the returned
\* sequence or with an error of the engagement or the build pass.
C34_RunTerminates ==
    /\ <>RunEnds
    /\ (HasCycle \/ BrokenEdges # {})
          ~> (pc = "fault" /\ fault.kind \in {"cyclic", "broken"})
    /\ (~HasCycle /\ BrokenEdges = {})
          ~> (pc = "done" \/ (pc = "fault" /\ fault.kind \in {"option", "wiring", "resource"}))

\* engage() is called in this step, on the head of the queue
EngageStep == pc = "engaging" /\ queue # <<>>

\* build() is called in this step, on the head of the return queue
BuildStep == pc = "building" /\ return_queue # <<>>

\* the lists of managers and suppliers, the registries and the depths stay
Wiring == <<suppliers, managers, tools, depth>>

\* C35: engage() on a stage, whether it returns or raises, changes nothing
\* but that stage's requirements and resources: the requirements and the
\* resources of every other stage (the outside manager included), every
\* stage's supplier_resources, lists of managers and suppliers and depth stay
\* as they were. build() on a stage changes nothing but that stage's
\* supplier_resources and its own instances: every requirement set, the
\* resources of every other stage, its suppliers among them, and the
\* supplier_resources of every other stage stay as they were.
C35_Frame ==
    [][/\ EngageStep
          => /\ \A t \in AllStages \ {Head(queue)} : requirements'[t] = requirements[t]
             /\ \A t \in Stages \ {Head(queue)} : resources'[t] = resources[t]
             /\ supplier_resources' = supplier_resources
             /\ UNCHANGED Wiring
       /\ BuildStep
          => /\ requirements' = requirements
             /\ \A t \in Stages \ {Head(return_queue)} :
                   /\ resources'[t] = resources[t]
                   /\ supplier_resources'[t] = supplier_resources[t]
             /\ KeySeq(resources'[Head(return_queue)])
                   = KeySeq(resources[Head(return_queue)])
             /\ UNCHANGED Wiring]_vars

\* a stage was engaged after its manager and built after its supplier: the
\* manager still holds its requirements, the supplier its instances, and the
\* stage its own requirements, instances and the supplier's instances
C35_Witness ==
    /\ pc = "building"
    /\ \E s \in Range(visited) : \E m \in Range(managers[s]) : \E t \in Range(suppliers[s]) :
          /\ requirements[m] # EmptyDict
          /\ requirements[s] # EmptyDict
          /\ resources[s] # <<>>
          /\ resources[t] # <<>>
          /\ supplier_resources[s] # <<>>
          /\ \A i \in 1..Len(resources[s]) : resources[s][i].pool = s

\* C36: equals(a, b) returns True or False for all requirement dicts a and b
\* whose entries are None or lists, and returns what equals(b, a) returns,
\* in whatever order b holds its names.
C36_EqualsTotalSymmetric ==
    (pc = "returned" /\ args.f = "equals") =>
        /\ out.ret \in {"True", "False"}
        /\ \A names \in NameOrders(DOMAIN args.reqs[2].d) :
              out.ret = equals(args.reqs[2].d, args.reqs[1].d, names)

\* what holds of a ChunkWriter between calls
RowsConserved ==
    /\ writer.idx + Len(writer.chunk) = writer.added
    /\ writer.idx = Len(writer.file)
    /\ \A i \in 1..Len(writer.file) : writer.file[i] = [index |-> i - 1, line |-> i]
    /\ LastCall.op = "add" => Len(writer.chunk) <= writer.chunksize
    /\ LastCall.op = "finish" => writer.chunk = <<>> /\ writer.idx = writer.added

\* C37: after every add() and every finish() on a ChunkWriter, idx plus the
\* length of the chunk is the number of lines added, idx is the number of
\* rows in the file, which are the lines added first, in order, indexed from
\* 0; after add() the chunk is no longer than chunksize, after finish() it is
\* empty and idx is the number of lines added; and a call writes a header
\* only when idx was 0.
C37_RowsConserved ==
    [][/\ RowsConserved'
       /\ writer'.headers > writer.headers => writer.idx = 0]_vars

\* the writer wrote twice, the second time without header, and holds lines
\* not yet written
C37_Witness ==
    /\ pc = "writing"
    /\ LastCall.op = "add"
    /\ writer.headers = 1
    /\ Len(writer.file) > writer.chunksize + 1
    /\ writer.chunksize > 0
    /\ writer.chunk # <<>>
    /\ \E i \in 1..Len(trace) : trace[i].op = "finish"

====
